---- MODULE Spec2Model ----
(***************************************************************************)
(* Kotlin/Native tracing collector: the same-thread mark-and-sweep (STMS)  *)
(* and the parallel-mark / concurrent-sweep (CMS) orchestrators, the epoch *)
(* state they drive, the mutators they suspend, the weak-reference         *)
(* registry and the finalizer pipeline.                                    *)
(*                                                                         *)
(* Both PerformFullGC bodies are modelled for the default build (no        *)
(* CUSTOM_ALLOCATOR).  The collaborators whose code is outside the given   *)
(* sources (GCState, ThreadSuspension, the mark dispatcher, processWeaks,  *)
(* Sweep, the finalizer processor, the scheduler) follow spec.md.          *)
(***************************************************************************)
EXTENDS Integers, Sequences, FiniteSets, TLC

\* ------------------------------------------------------------------ bounds
MaxObj == 2
NumSlots == 1
NumMutators == 2
NumAux == 1
MaxCalls == 3
MaxReconf == 2
NumPermanent == 1

Obj == 1..MaxObj
Slots == 1..NumSlots
Mutators == 1..NumMutators
Aux == 1..NumAux
NULL == 0
\* Permanent (static) objects: not on the managed heap, never allocated,
\* marked or swept.
Permanent == (MaxObj + 1)..(MaxObj + NumPermanent)

\* The mark workers: the main GC thread, the auxiliary GC threads and the
\* mutators (when they cooperate).
MainWorker == 0
AuxWorker(a) == a
MutatorWorker(m) == NumAux + m
Workers == 0..(NumAux + NumMutators)

VARIABLES
    \* build / construction parameters
    variant,              \* "STMS" or "CMS"
    concurrentWeakSweep,  \* compiler::concurrentWeakSweep()
    auxThreads,           \* auxiliary GC threads created by the constructor
    \* heap
    threadQueue,          \* per mutator: objects in its thread-local factory queue
    objectFactory,        \* objects published to the global object factory
    extraObjectFactory,   \* base objects with an entry in the extra-object factory
    hasFinalizer,         \* objects whose extra-object data carries a finalizer
    marked,               \* objects whose mark bit is set
    refs,                 \* reference fields: refs[o] is the set of objects o points to
    roots,                \* per mutator: its root set
    weak,                 \* weak-reference registry: slot -> object or NULL
    freed,                \* objects whose memory sweep released
    \* epoch state (GCState)
    scheduledEpoch, startedEpoch, finishedEpoch, finalizedEpoch, shutdownFlag,
    \* main GC thread
    gcpc,                 \* position of the GC thread
    epoch,                \* PerformFullGC's argument
    weakPos,              \* processWeaks: index of the next slot to visit
    finalizerQueue,       \* PerformFullGC's local finalizerQueue
    gcMutex,              \* TRUE while mainGCLock is held
    objectFactoryLock, extraObjectFactoryLock,   \* iteration locks
    \* suspension and barriers
    suspensionRequested,
    weakRefBarriers,
    mstate,               \* per mutator: "running", "suspended", "native",
                          \* "exiting", "terminated"
    waitEpoch,            \* per mutator: epoch awaited in scheduleAndWaitFinished
    \* mark dispatcher
    shutdownRequested,
    markingActive,        \* between beginMarkingEpoch and endMarkingEpoch
    auxpc,                \* per auxiliary thread: "loop", "run", "exited"
    \* finalizer processor
    finalizerTasks,       \* queue of <<epoch, batch>>
    finalizedObjs,        \* objects whose finalizer has run
    \* observations
    returned,             \* epochs returned by Schedule(), in call order
    liveAtMark,           \* objects reachable from the roots when the epoch's mark ran
    markedByMark,         \* objects the epoch's mark phase marked
    publishedAtSweep,     \* objects in the global factory when the sweep began
    weakRead,             \* last weak read: its result, and whether barriers were on
    clearedWeak,          \* objects that processWeaks cleared out of a slot
    oomResumed,           \* per mutator: epoch awaited by its last returned OnOOM (0: none)
    \* mark dispatcher: parallel mark
    mutatorsCooperate,    \* constructor parameter: suspended mutators help to mark
    rootSetLocked,        \* per mutator: rootSetLocked_
    cooperative,          \* per mutator: cooperative_
    published,            \* per mutator: published_
    claimCount,           \* per mutator: tryLockRootSet calls that returned true since
                          \* the last clearMarkFlags
    wstate,               \* per worker: "out", "roots", "scan", "mark", "idle"
    rootPos,              \* per worker: the mutator whose root set it tries next
    local,                \* per worker: gray objects in its local buffer
    activeWorkers,        \* the dispatcher's count of active workers
    markingComplete,      \* quiescence has been signalled for this epoch
    \* suspension calls
    suspLog,              \* calls PerformFullGC has made so far: "request", "wait", "resume"
    milestones,           \* PerformFullGC so far: "wait", "onGCStart", "start", "resume",
                          \* "finish"
    resumedEpoch,         \* the last epoch whose final ResumeThreads has been called
    \* reconfiguration
    gcMarkSingleThreaded, \* compiler::gcMarkSingleThreaded()
    reconfpc,             \* the thread calling reconfigure: "idle", "called", "locked", "reset"
    reconfCalls,          \* calls of reconfigure so far
    \* extra-object data of permanent objects
    permExtraQueue        \* per mutator: permanent objects with an entry in its
                          \* thread-local extra-object queue

vars == <<variant, concurrentWeakSweep, auxThreads,
          threadQueue, objectFactory, extraObjectFactory, hasFinalizer, marked, refs,
          roots, weak, freed,
          scheduledEpoch, startedEpoch, finishedEpoch, finalizedEpoch, shutdownFlag,
          gcpc, epoch, weakPos, finalizerQueue, gcMutex, objectFactoryLock,
          extraObjectFactoryLock, suspensionRequested, weakRefBarriers, mstate,
          waitEpoch, shutdownRequested, markingActive, auxpc, finalizerTasks, finalizedObjs,
          returned, liveAtMark, markedByMark, publishedAtSweep, weakRead, clearedWeak,
          oomResumed,
          mutatorsCooperate, rootSetLocked, cooperative, published, claimCount, wstate,
          rootPos, local, activeWorkers, markingComplete, suspLog,
          gcMarkSingleThreaded, reconfpc, reconfCalls, permExtraQueue,
          milestones, resumedEpoch>>

configVars == <<variant, concurrentWeakSweep, auxThreads>>
heapVars == <<threadQueue, objectFactory, extraObjectFactory, hasFinalizer, marked,
              refs, roots, weak, freed>>
stateVars == <<scheduledEpoch, startedEpoch, finishedEpoch, finalizedEpoch, shutdownFlag>>
gcVars == <<gcpc, epoch, weakPos, finalizerQueue, gcMutex, objectFactoryLock,
            extraObjectFactoryLock>>
suspVars == <<suspensionRequested, weakRefBarriers, mstate, waitEpoch>>
markVars == <<shutdownRequested, markingActive, auxpc>>
finVars == <<finalizerTasks, finalizedObjs>>
obsVars == <<returned, liveAtMark, markedByMark, publishedAtSweep, weakRead, clearedWeak,
             oomResumed>>
flagVars == <<rootSetLocked, cooperative, published, claimCount>>
workVars == <<wstate, rootPos, local, activeWorkers, markingComplete>>
dispVars == <<mutatorsCooperate, flagVars, workVars>>
histVars == <<suspLog, milestones, resumedEpoch>>
reconfVars == <<gcMarkSingleThreaded, reconfpc, reconfCalls>>

\* ------------------------------------------------------- object model
\* ObjHeader::heap(): every object of Obj lives on the managed heap.
IsHeap(o) == o \in Obj

\* Objects that exist: in a thread-local queue or in the global factory.
Allocated == objectFactory \cup UNION {threadQueue[m] : m \in Mutators}

\* Objects transitively reachable from the set S through reference fields.
RECURSIVE Closure(_, _)
Closure(S, r) ==
    LET T == S \cup UNION {r[o] : o \in S}
    IN  IF T = S THEN S ELSE Closure(T, r)

\* The root set of a collection: the roots of every registered mutator.
RootSet == UNION {roots[m] : m \in Mutators}

\* collectRootSet + Mark: the objects marked once the worklist is empty.
MarkResult == marked \cup {o \in Closure(RootSet, refs) : IsHeap(o)}

\* ProcessWeaksTraits::IsMarked
IsMarked_AlwaysTrue(o) == TRUE
IsMarked_Negated(o) == o \notin marked
IsMarked(o) == o \in marked

\* SweepTraits::IsMarkedByExtraObject
IsMarkedByExtraObject_NoHeapCheck(o) == o \in marked
IsMarkedByExtraObject(o) == IF ~IsHeap(o) THEN TRUE ELSE o \in marked

\* SweepTraits::TryResetMark / GC::SweepObject: the result of tryResetMark;
\* the mark bit of the object is cleared when it returns TRUE.
TryResetMark_Negated(o) == o \notin marked
TryResetMark_AlwaysTrue(o) == TRUE
TryResetMark(o) == o \in marked

\* gc::SweepExtraObjects over the locked extra-object factory.
SweepExtraObjectsResult == {o \in extraObjectFactory : IsMarkedByExtraObject(o)}

\* gc::Sweep over the locked object factory: survivors, the finalizer queue
\* and the objects released at once.
SweepSurvivors(F) == {o \in F : TryResetMark(o)}
SweepFinalizerQueue(F) == {o \in F : ~TryResetMark(o) /\ o \in hasFinalizer}
SweepFreed(F) == {o \in F : ~TryResetMark(o) /\ o \notin hasFinalizer}

\* ------------------------------------------------------- epoch state
\* GCState::schedule: the epoch a call returns.
ScheduleResult ==
    IF scheduledEpoch <= startedEpoch THEN startedEpoch + 1 ELSE scheduledEpoch

\* GCState::waitScheduled is released.
WaitScheduledReturns == scheduledEpoch > finishedEpoch \/ shutdownFlag

\* GC::WaitFinished(e) / GC::WaitFinalizers(e) are released.
WaitFinished(e) == finishedEpoch >= e \/ shutdownFlag
WaitFinalizers(e) == finalizedEpoch >= e \/ shutdownFlag

\* mm::WaitForThreadsSuspension / waitForThreadsPauseMutation is released.
AllThreadsSuspended ==
    \A m \in Mutators : mstate[m] \in {"suspended", "native", "terminated"}

\* ------------------------------------------------- per-mutator mark flags
\* ThreadData::tryLockRootSet: the value the compare-and-swap of
\* rootSetLocked_ from false to true returns; the flag is true afterwards.
TryLockRootSet_NoCompare(m) == TRUE
TryLockRootSet(m) == ~rootSetLocked[m]

\* ThreadData::clearMarkFlags on every mutator; the claims counted so far
\* belong to the epoch that ended.
ClearMarkFlags ==
    /\ published' = [m \in Mutators |-> FALSE]
    /\ cooperative' = [m \in Mutators |-> FALSE]
    /\ rootSetLocked' = [m \in Mutators |-> FALSE]
    /\ claimCount' = [m \in Mutators |-> 0]

\* --------------------------------------- CMS: main GC thread, PerformFullGC
\* mainGCThreadBody: waitScheduled, then PerformFullGC or leave the loop and
\* request the dispatcher's shutdown.
CMS_mainGCThreadBody_NoRequestShutdown ==
    /\ variant = "CMS" /\ gcpc = "waitScheduled"
    /\ WaitScheduledReturns
    /\ IF shutdownFlag
       THEN gcpc' = "exited" /\ epoch' = epoch
       ELSE gcpc' = "begin" /\ epoch' = scheduledEpoch
    /\ suspLog' = IF shutdownFlag THEN suspLog ELSE <<>>
    /\ milestones' = IF shutdownFlag THEN milestones ELSE <<>>
    /\ resumedEpoch' = resumedEpoch
    /\ UNCHANGED <<permExtraQueue, reconfVars, dispVars, configVars, heapVars, stateVars, weakPos, finalizerQueue, gcMutex,
                   objectFactoryLock, extraObjectFactoryLock, suspVars, markVars,
                   finVars, obsVars>>

CMS_mainGCThreadBody ==
    /\ variant = "CMS" /\ gcpc = "waitScheduled"
    /\ WaitScheduledReturns
    /\ IF shutdownFlag
       THEN /\ gcpc' = "exited"
            /\ shutdownRequested' = TRUE
            /\ epoch' = epoch
       ELSE /\ gcpc' = "begin"
            /\ epoch' = scheduledEpoch
            /\ shutdownRequested' = shutdownRequested
    /\ suspLog' = IF shutdownFlag THEN suspLog ELSE <<>>
    /\ milestones' = IF shutdownFlag THEN milestones ELSE <<>>
    /\ resumedEpoch' = resumedEpoch
    /\ UNCHANGED <<permExtraQueue, reconfVars, dispVars, configVars, heapVars, stateVars, weakPos, finalizerQueue, gcMutex,
                   objectFactoryLock, extraObjectFactoryLock, suspVars, markingActive,
                   auxpc, finVars, obsVars>>

\* mainGCLock(gcMutex); beginMarkingEpoch: the dispatcher clears the mark
\* flags of every mutator and starts from an empty worklist.
CMS_BeginMarkingEpoch ==
    /\ variant = "CMS" /\ gcpc = "begin"
    /\ ~gcMutex
    /\ gcMutex' = TRUE
    /\ markingActive' = TRUE
    /\ ClearMarkFlags
    /\ local' = [w \in Workers |-> {}]
    /\ activeWorkers' = 0
    /\ markingComplete' = FALSE
    /\ gcpc' = "request"
    /\ UNCHANGED <<permExtraQueue, reconfVars, histVars, mutatorsCooperate, wstate, rootPos, configVars, heapVars, stateVars, epoch, weakPos, finalizerQueue,
                   objectFactoryLock, extraObjectFactoryLock, suspVars,
                   shutdownRequested, auxpc, finVars, obsVars>>

\* mm::RequestThreadsSuspension; RuntimeAssert(didSuspend)
CMS_RequestThreadsSuspension ==
    /\ variant = "CMS" /\ gcpc = "request"
    /\ IF suspensionRequested
       THEN gcpc' = "aborted" /\ UNCHANGED suspensionRequested
       ELSE gcpc' = "wait" /\ suspensionRequested' = TRUE
    /\ suspLog' = IF suspensionRequested THEN suspLog ELSE Append(suspLog, "request")
    /\ milestones' = milestones
    /\ resumedEpoch' = resumedEpoch
    /\ UNCHANGED <<permExtraQueue, reconfVars, dispVars, configVars, heapVars, stateVars, epoch, weakPos, finalizerQueue,
                   gcMutex, objectFactoryLock, extraObjectFactoryLock, weakRefBarriers,
                   mstate, waitEpoch, markVars, finVars, obsVars>>

\* markDispatcher_.waitForThreadsPauseMutation
CMS_WaitForThreadsPauseMutation ==
    /\ variant = "CMS" /\ gcpc = "wait"
    /\ AllThreadsSuspended
    /\ gcpc' = "start"
    /\ suspLog' = Append(suspLog, "wait")
    /\ milestones' = Append(milestones, "wait")
    /\ resumedEpoch' = resumedEpoch
    /\ UNCHANGED <<permExtraQueue, reconfVars, dispVars, configVars, heapVars, stateVars, epoch, weakPos, finalizerQueue,
                   gcMutex, objectFactoryLock, extraObjectFactoryLock, suspVars,
                   markVars, finVars, obsVars>>

\* state_.start(epoch) signalled before scheduler.onGCStart.
CMS_Start_BeforeOnGCStart ==
    /\ variant = "CMS" /\ gcpc = "start"
    /\ startedEpoch' = epoch
    /\ gcpc' = "mark"
    /\ milestones' = milestones \o <<"start", "onGCStart">>
    /\ UNCHANGED <<suspLog, resumedEpoch>>
    /\ UNCHANGED <<permExtraQueue, reconfVars, dispVars, configVars, heapVars, scheduledEpoch, finishedEpoch, finalizedEpoch,
                   shutdownFlag, epoch, weakPos, finalizerQueue, gcMutex,
                   objectFactoryLock, extraObjectFactoryLock, suspVars, markVars,
                   finVars, obsVars>>

\* scheduler.onGCStart; state_.start(epoch)
CMS_Start ==
    /\ variant = "CMS" /\ gcpc = "start"
    /\ startedEpoch' = epoch
    /\ gcpc' = "mark"
    /\ milestones' = milestones \o <<"onGCStart", "start">>
    /\ UNCHANGED <<suspLog, resumedEpoch>>
    /\ UNCHANGED <<permExtraQueue, reconfVars, dispVars, configVars, heapVars, scheduledEpoch, finishedEpoch, finalizedEpoch,
                   shutdownFlag, epoch, weakPos, finalizerQueue, gcMutex,
                   objectFactoryLock, extraObjectFactoryLock, suspVars, markVars,
                   finVars, obsVars>>

\* markDispatcher_.runMainInSTW; endMarkingEpoch
CMS_RunMainInSTW ==
    /\ variant = "CMS" /\ gcpc = "mark"
    /\ marked' = MarkResult
    /\ markingActive' = FALSE
    /\ liveAtMark' = Closure(RootSet, refs)
    /\ markedByMark' = MarkResult
    /\ clearedWeak' = {}
    /\ gcpc' = IF concurrentWeakSweep THEN "enableBarriers" ELSE "weaks"
    /\ weakPos' = 1
    /\ UNCHANGED <<permExtraQueue, reconfVars, histVars, dispVars, configVars, threadQueue, objectFactory, extraObjectFactory,
                   hasFinalizer, refs, roots, weak, freed, stateVars, epoch,
                   finalizerQueue, gcMutex, objectFactoryLock, extraObjectFactoryLock,
                   suspVars, shutdownRequested, auxpc, finVars, returned,
                   publishedAtSweep, weakRead, oomResumed>>

\* The mutators resumed for concurrent weak processing with the barriers
\* left disabled.
CMS_EnableWeakRefBarriers_Skipped ==
    /\ variant = "CMS" /\ gcpc = "enableBarriers"
    /\ gcpc' = "resumeForWeaks"
    /\ UNCHANGED <<permExtraQueue, reconfVars, histVars, dispVars, configVars, heapVars, stateVars, epoch, weakPos,
                   finalizerQueue, gcMutex, objectFactoryLock, extraObjectFactoryLock,
                   suspVars, markVars, finVars, obsVars>>

\* if (concurrentWeakSweep) barriers::EnableWeakRefBarriers(epoch)
CMS_EnableWeakRefBarriers ==
    /\ variant = "CMS" /\ gcpc = "enableBarriers"
    /\ weakRefBarriers' = TRUE
    /\ gcpc' = "resumeForWeaks"
    /\ UNCHANGED <<permExtraQueue, reconfVars, histVars, dispVars, configVars, heapVars, stateVars, epoch, weakPos, finalizerQueue,
                   gcMutex, objectFactoryLock, extraObjectFactoryLock,
                   suspensionRequested, mstate, waitEpoch, markVars, finVars, obsVars>>

\* if (concurrentWeakSweep) mm::ResumeThreads
CMS_ResumeThreadsForWeaks ==
    /\ variant = "CMS" /\ gcpc = "resumeForWeaks"
    /\ suspensionRequested' = FALSE
    /\ gcpc' = "weaks"
    /\ suspLog' = Append(suspLog, "resume")
    /\ milestones' = Append(milestones, "resume")
    /\ resumedEpoch' = resumedEpoch
    /\ UNCHANGED <<permExtraQueue, reconfVars, dispVars, configVars, heapVars, stateVars, epoch, weakPos, finalizerQueue,
                   gcMutex, objectFactoryLock, extraObjectFactoryLock, weakRefBarriers,
                   mstate, waitEpoch, markVars, finVars, obsVars>>

\* gc::processWeaks<ProcessWeaksTraits>: one slot of the registry per step
CMS_ProcessWeaks ==
    /\ variant = "CMS" /\ gcpc = "weaks"
    /\ IF weakPos \in Slots
       THEN /\ IF weak[weakPos] # NULL /\ ~IsMarked(weak[weakPos])
               THEN /\ weak' = [weak EXCEPT ![weakPos] = NULL]
                    /\ clearedWeak' = clearedWeak \cup {weak[weakPos]}
               ELSE UNCHANGED <<weak, clearedWeak>>
            /\ weakPos' = weakPos + 1
            /\ gcpc' = gcpc
       ELSE /\ gcpc' = IF concurrentWeakSweep THEN "requestAgain" ELSE "publish"
            /\ UNCHANGED <<permExtraQueue, reconfVars, histVars, dispVars, weak, clearedWeak, weakPos>>
    /\ UNCHANGED <<permExtraQueue, reconfVars, histVars, dispVars, configVars, threadQueue, objectFactory, extraObjectFactory,
                   hasFinalizer, marked, refs, roots, freed, stateVars, epoch,
                   finalizerQueue, gcMutex, objectFactoryLock, extraObjectFactoryLock,
                   suspVars, markVars, finVars, returned, liveAtMark, markedByMark,
                   publishedAtSweep, weakRead, oomResumed>>

\* The second stop-the-world entered without a new suspension request.
CMS_RequestThreadsSuspensionAgain_NoRequest ==
    /\ variant = "CMS" /\ gcpc = "requestAgain"
    /\ gcpc' = "waitAgain"
    /\ UNCHANGED <<permExtraQueue, reconfVars, histVars, dispVars, configVars, heapVars, stateVars, epoch, weakPos,
                   finalizerQueue, gcMutex, objectFactoryLock, extraObjectFactoryLock,
                   suspVars, markVars, finVars, obsVars>>

\* if (concurrentWeakSweep) mm::RequestThreadsSuspension; RuntimeAssert(didSuspend)
CMS_RequestThreadsSuspensionAgain ==
    /\ variant = "CMS" /\ gcpc = "requestAgain"
    /\ IF suspensionRequested
       THEN gcpc' = "aborted" /\ UNCHANGED suspensionRequested
       ELSE gcpc' = "waitAgain" /\ suspensionRequested' = TRUE
    /\ suspLog' = IF suspensionRequested THEN suspLog ELSE Append(suspLog, "request")
    /\ milestones' = milestones
    /\ resumedEpoch' = resumedEpoch
    /\ UNCHANGED <<permExtraQueue, reconfVars, dispVars, configVars, heapVars, stateVars, epoch, weakPos, finalizerQueue,
                   gcMutex, objectFactoryLock, extraObjectFactoryLock, weakRefBarriers,
                   mstate, waitEpoch, markVars, finVars, obsVars>>

\* if (concurrentWeakSweep) mm::WaitForThreadsSuspension; DisableWeakRefBarriers
CMS_WaitAndDisableWeakRefBarriers ==
    /\ variant = "CMS" /\ gcpc = "waitAgain"
    /\ AllThreadsSuspended
    /\ weakRefBarriers' = FALSE
    /\ gcpc' = "publish"
    /\ suspLog' = Append(suspLog, "wait")
    /\ milestones' = Append(milestones, "wait")
    /\ resumedEpoch' = resumedEpoch
    /\ UNCHANGED <<permExtraQueue, reconfVars, dispVars, configVars, heapVars, stateVars, epoch, weakPos, finalizerQueue,
                   gcMutex, objectFactoryLock, extraObjectFactoryLock,
                   suspensionRequested, mstate, waitEpoch, markVars, finVars, obsVars>>

\* GC::ThreadData::PublishObjectFactory for every registered thread: the
\* thread-local extra-object and object queues move to the global factories.
PublishedExtraObjects ==
    extraObjectFactory \cup
        {o \in UNION {threadQueue[m] : m \in Mutators} : o \in hasFinalizer}
        \cup UNION {permExtraQueue[m] : m \in Mutators}
PublishedObjects == objectFactory \cup UNION {threadQueue[m] : m \in Mutators}

\* The thread queues are published but the iteration locks are not taken.
CMS_PublishAndLock_NoLock ==
    /\ variant = "CMS" /\ gcpc = "publish"
    /\ ~objectFactoryLock /\ ~extraObjectFactoryLock
    /\ objectFactory' = PublishedObjects
    /\ extraObjectFactory' = PublishedExtraObjects
    /\ threadQueue' = [m \in Mutators |-> {}]
    /\ publishedAtSweep' = PublishedObjects
    /\ gcpc' = "resume"
    /\ permExtraQueue' = [m \in Mutators |-> {}]
    /\ UNCHANGED <<reconfVars, histVars, dispVars, configVars, hasFinalizer, marked, refs, roots, weak,
                   freed, stateVars, epoch, weakPos, finalizerQueue, gcMutex,
                   objectFactoryLock, extraObjectFactoryLock, suspVars,
                   markVars, finVars, returned, liveAtMark, markedByMark, weakRead,
                   clearedWeak, oomResumed>>

\* PublishObjectFactory for all threads; objectFactory().LockForIter();
\* extraObjectDataFactory().LockForIter()
CMS_PublishAndLock ==
    /\ variant = "CMS" /\ gcpc = "publish"
    /\ ~objectFactoryLock /\ ~extraObjectFactoryLock
    /\ objectFactory' = PublishedObjects
    /\ extraObjectFactory' = PublishedExtraObjects
    /\ threadQueue' = [m \in Mutators |-> {}]
    /\ objectFactoryLock' = TRUE
    /\ extraObjectFactoryLock' = TRUE
    /\ publishedAtSweep' = PublishedObjects
    /\ gcpc' = "resume"
    /\ permExtraQueue' = [m \in Mutators |-> {}]
    /\ UNCHANGED <<reconfVars, histVars, dispVars, configVars, hasFinalizer, marked, refs, roots, weak, freed,
                   stateVars, epoch, weakPos, finalizerQueue, gcMutex, suspVars,
                   markVars, finVars, returned, liveAtMark, markedByMark, weakRead,
                   clearedWeak, oomResumed>>

\* The sweep is entered without resuming the mutators.
CMS_ResumeThreads_Skipped ==
    /\ variant = "CMS" /\ gcpc = "resume"
    /\ gcpc' = "sweepExtra"
    /\ UNCHANGED <<permExtraQueue, reconfVars, histVars, dispVars, configVars, heapVars, stateVars, epoch, weakPos,
                   finalizerQueue, gcMutex, objectFactoryLock, extraObjectFactoryLock,
                   suspVars, markVars, finVars, obsVars>>

\* mm::ResumeThreads
CMS_ResumeThreads ==
    /\ variant = "CMS" /\ gcpc = "resume"
    /\ suspensionRequested' = FALSE
    /\ gcpc' = "sweepExtra"
    /\ suspLog' = Append(suspLog, "resume")
    /\ milestones' = Append(milestones, "resume")
    /\ resumedEpoch' = epoch
    /\ UNCHANGED <<permExtraQueue, reconfVars, dispVars, configVars, heapVars, stateVars, epoch, weakPos, finalizerQueue,
                   gcMutex, objectFactoryLock, extraObjectFactoryLock, weakRefBarriers,
                   mstate, waitEpoch, markVars, finVars, obsVars>>

\* gc::SweepExtraObjects<SweepTraits>; extraObjectFactoryIterable = nullopt
CMS_SweepExtraObjects ==
    /\ variant = "CMS" /\ gcpc = "sweepExtra"
    /\ extraObjectFactory' = SweepExtraObjectsResult
    /\ extraObjectFactoryLock' = FALSE
    /\ gcpc' = "sweep"
    /\ UNCHANGED <<permExtraQueue, reconfVars, histVars, dispVars, configVars, threadQueue, objectFactory, hasFinalizer, marked, refs,
                   roots, weak, freed, stateVars, epoch, weakPos, finalizerQueue,
                   gcMutex, objectFactoryLock, suspVars, markVars, finVars, obsVars>>

\* gc::Sweep<SweepTraits>; objectFactoryIterable = nullopt; compactObjectPool
CMS_Sweep ==
    /\ variant = "CMS" /\ gcpc = "sweep"
    /\ objectFactory' = SweepSurvivors(objectFactory)
    /\ finalizerQueue' = SweepFinalizerQueue(objectFactory)
    /\ freed' = freed \cup SweepFreed(objectFactory)
    /\ marked' = marked \ objectFactory
    /\ objectFactoryLock' = FALSE
    /\ gcpc' = "finish"
    /\ UNCHANGED <<permExtraQueue, reconfVars, histVars, dispVars, configVars, threadQueue, extraObjectFactory, hasFinalizer, refs,
                   roots, weak, stateVars, epoch, weakPos, gcMutex,
                   extraObjectFactoryLock, suspVars, markVars, finVars, obsVars>>

\* scheduler.onGCFinish; state_.finish(epoch)
CMS_Finish_Skipped ==
    /\ variant = "CMS" /\ gcpc = "finish"
    /\ gcpc' = "scheduleTasks"
    /\ UNCHANGED <<permExtraQueue, reconfVars, histVars, dispVars, configVars, heapVars, stateVars, epoch, weakPos, finalizerQueue,
                   gcMutex, objectFactoryLock, extraObjectFactoryLock, suspVars,
                   markVars, finVars, obsVars>>

CMS_Finish ==
    /\ variant = "CMS" /\ gcpc = "finish"
    /\ finishedEpoch' = epoch
    /\ gcpc' = "scheduleTasks"
    /\ milestones' = Append(milestones, "finish")
    /\ UNCHANGED <<suspLog, resumedEpoch>>
    /\ UNCHANGED <<permExtraQueue, reconfVars, dispVars, configVars, heapVars, scheduledEpoch, startedEpoch, finalizedEpoch,
                   shutdownFlag, epoch, weakPos, finalizerQueue, gcMutex,
                   objectFactoryLock, extraObjectFactoryLock, suspVars, markVars,
                   finVars, obsVars>>

\* finalizerProcessor_.ScheduleTasks(std::move(finalizerQueue), epoch); the
\* function returns and mainGCLock goes out of scope.
CMS_ScheduleTasks_SkipEmpty ==
    /\ variant = "CMS" /\ gcpc = "scheduleTasks"
    /\ finalizerTasks' = IF finalizerQueue = {} THEN finalizerTasks
                         ELSE Append(finalizerTasks, <<epoch, finalizerQueue>>)
    /\ finalizerQueue' = {}
    /\ gcMutex' = FALSE
    /\ gcpc' = "waitScheduled"
    /\ UNCHANGED <<permExtraQueue, reconfVars, histVars, dispVars, configVars, heapVars, stateVars, epoch, weakPos, objectFactoryLock,
                   extraObjectFactoryLock, suspVars, markVars, finalizedObjs, obsVars>>

CMS_ScheduleTasks ==
    /\ variant = "CMS" /\ gcpc = "scheduleTasks"
    /\ finalizerTasks' = Append(finalizerTasks, <<epoch, finalizerQueue>>)
    /\ finalizerQueue' = {}
    /\ gcMutex' = FALSE
    /\ gcpc' = "waitScheduled"
    /\ UNCHANGED <<permExtraQueue, reconfVars, histVars, dispVars, configVars, heapVars, stateVars, epoch, weakPos, objectFactoryLock,
                   extraObjectFactoryLock, suspVars, markVars, finalizedObjs, obsVars>>

\* -------------------------------------- STMS: GC thread, PerformFullGC
\* the GC thread's loop: waitScheduled, then PerformFullGC or break
STMS_GCThreadBody ==
    /\ variant = "STMS" /\ gcpc = "waitScheduled"
    /\ WaitScheduledReturns
    /\ IF shutdownFlag
       THEN gcpc' = "exited" /\ epoch' = epoch
       ELSE gcpc' = "request" /\ epoch' = scheduledEpoch
    /\ suspLog' = IF shutdownFlag THEN suspLog ELSE <<>>
    /\ milestones' = IF shutdownFlag THEN milestones ELSE <<>>
    /\ resumedEpoch' = resumedEpoch
    /\ UNCHANGED <<permExtraQueue, reconfVars, dispVars, configVars, heapVars, stateVars, weakPos, finalizerQueue, gcMutex,
                   objectFactoryLock, extraObjectFactoryLock, suspVars, markVars,
                   finVars, obsVars>>

\* mm::RequestThreadsSuspension; RuntimeAssert(didSuspend)
STMS_RequestThreadsSuspension ==
    /\ variant = "STMS" /\ gcpc = "request"
    /\ IF suspensionRequested
       THEN gcpc' = "aborted" /\ UNCHANGED suspensionRequested
       ELSE gcpc' = "wait" /\ suspensionRequested' = TRUE
    /\ suspLog' = IF suspensionRequested THEN suspLog ELSE Append(suspLog, "request")
    /\ milestones' = milestones
    /\ resumedEpoch' = resumedEpoch
    /\ UNCHANGED <<permExtraQueue, reconfVars, dispVars, configVars, heapVars, stateVars, epoch, weakPos, finalizerQueue,
                   gcMutex, objectFactoryLock, extraObjectFactoryLock, weakRefBarriers,
                   mstate, waitEpoch, markVars, finVars, obsVars>>

\* mm::WaitForThreadsSuspension
STMS_WaitForThreadsSuspension ==
    /\ variant = "STMS" /\ gcpc = "wait"
    /\ AllThreadsSuspended
    /\ gcpc' = "start"
    /\ suspLog' = Append(suspLog, "wait")
    /\ milestones' = Append(milestones, "wait")
    /\ resumedEpoch' = resumedEpoch
    /\ UNCHANGED <<permExtraQueue, reconfVars, dispVars, configVars, heapVars, stateVars, epoch, weakPos, finalizerQueue,
                   gcMutex, objectFactoryLock, extraObjectFactoryLock, suspVars,
                   markVars, finVars, obsVars>>

\* scheduler.onGCStart; state_.start(epoch)
STMS_Start ==
    /\ variant = "STMS" /\ gcpc = "start"
    /\ startedEpoch' = epoch
    /\ gcpc' = "mark"
    /\ milestones' = milestones \o <<"onGCStart", "start">>
    /\ UNCHANGED <<suspLog, resumedEpoch>>
    /\ UNCHANGED <<permExtraQueue, reconfVars, dispVars, configVars, heapVars, scheduledEpoch, finishedEpoch, finalizedEpoch,
                   shutdownFlag, epoch, weakPos, finalizerQueue, gcMutex,
                   objectFactoryLock, extraObjectFactoryLock, suspVars, markVars,
                   finVars, obsVars>>

\* gc::collectRootSet (every thread); gc::Mark
STMS_Mark ==
    /\ variant = "STMS" /\ gcpc = "mark"
    /\ marked' = MarkResult
    /\ liveAtMark' = Closure(RootSet, refs)
    /\ markedByMark' = MarkResult
    /\ clearedWeak' = {}
    /\ weakPos' = 1
    /\ gcpc' = "weaks"
    /\ UNCHANGED <<permExtraQueue, reconfVars, histVars, dispVars, configVars, threadQueue, objectFactory, extraObjectFactory,
                   hasFinalizer, refs, roots, weak, freed, stateVars, epoch,
                   finalizerQueue, gcMutex, objectFactoryLock, extraObjectFactoryLock,
                   suspVars, markVars, finVars, returned, publishedAtSweep, weakRead,
                   oomResumed>>

\* gc::processWeaks<ProcessWeaksTraits>: one slot of the registry per step
STMS_ProcessWeaks ==
    /\ variant = "STMS" /\ gcpc = "weaks"
    /\ IF weakPos \in Slots
       THEN /\ IF weak[weakPos] # NULL /\ ~IsMarked(weak[weakPos])
               THEN /\ weak' = [weak EXCEPT ![weakPos] = NULL]
                    /\ clearedWeak' = clearedWeak \cup {weak[weakPos]}
               ELSE UNCHANGED <<weak, clearedWeak>>
            /\ weakPos' = weakPos + 1
            /\ gcpc' = gcpc
       ELSE /\ gcpc' = "publish"
            /\ UNCHANGED <<permExtraQueue, reconfVars, histVars, dispVars, weak, clearedWeak, weakPos>>
    /\ UNCHANGED <<permExtraQueue, reconfVars, histVars, dispVars, configVars, threadQueue, objectFactory, extraObjectFactory,
                   hasFinalizer, marked, refs, roots, freed, stateVars, epoch,
                   finalizerQueue, gcMutex, objectFactoryLock, extraObjectFactoryLock,
                   suspVars, markVars, finVars, returned, liveAtMark, markedByMark,
                   publishedAtSweep, weakRead, oomResumed>>

\* PublishObjectFactory for all threads; extraObjectDataFactory_.LockForIter();
\* objectFactory_.LockForIter()
STMS_PublishAndLock ==
    /\ variant = "STMS" /\ gcpc = "publish"
    /\ ~objectFactoryLock /\ ~extraObjectFactoryLock
    /\ objectFactory' = PublishedObjects
    /\ extraObjectFactory' = PublishedExtraObjects
    /\ threadQueue' = [m \in Mutators |-> {}]
    /\ objectFactoryLock' = TRUE
    /\ extraObjectFactoryLock' = TRUE
    /\ publishedAtSweep' = PublishedObjects
    /\ gcpc' = "sweepExtra"
    /\ permExtraQueue' = [m \in Mutators |-> {}]
    /\ UNCHANGED <<reconfVars, histVars, dispVars, configVars, hasFinalizer, marked, refs, roots, weak, freed,
                   stateVars, epoch, weakPos, finalizerQueue, gcMutex, suspVars,
                   markVars, finVars, returned, liveAtMark, markedByMark, weakRead,
                   clearedWeak, oomResumed>>

\* gc::SweepExtraObjects<SweepTraits>; extraObjectFactoryIterable = nullopt
STMS_SweepExtraObjects ==
    /\ variant = "STMS" /\ gcpc = "sweepExtra"
    /\ extraObjectFactory' = SweepExtraObjectsResult
    /\ extraObjectFactoryLock' = FALSE
    /\ gcpc' = "sweep"
    /\ UNCHANGED <<permExtraQueue, reconfVars, histVars, dispVars, configVars, threadQueue, objectFactory, hasFinalizer, marked, refs,
                   roots, weak, freed, stateVars, epoch, weakPos, finalizerQueue,
                   gcMutex, objectFactoryLock, suspVars, markVars, finVars, obsVars>>

\* gc::Sweep<SweepTraits>; objectFactoryIterable = nullopt; compactObjectPool
STMS_Sweep ==
    /\ variant = "STMS" /\ gcpc = "sweep"
    /\ objectFactory' = SweepSurvivors(objectFactory)
    /\ finalizerQueue' = SweepFinalizerQueue(objectFactory)
    /\ freed' = freed \cup SweepFreed(objectFactory)
    /\ marked' = marked \ objectFactory
    /\ objectFactoryLock' = FALSE
    /\ gcpc' = "resume"
    /\ UNCHANGED <<permExtraQueue, reconfVars, histVars, dispVars, configVars, threadQueue, extraObjectFactory, hasFinalizer, refs,
                   roots, weak, stateVars, epoch, weakPos, gcMutex,
                   extraObjectFactoryLock, suspVars, markVars, finVars, obsVars>>

\* scheduler.onGCFinish; mm::ResumeThreads
STMS_ResumeThreads ==
    /\ variant = "STMS" /\ gcpc = "resume"
    /\ suspensionRequested' = FALSE
    /\ gcpc' = "finish"
    /\ suspLog' = Append(suspLog, "resume")
    /\ milestones' = Append(milestones, "resume")
    /\ resumedEpoch' = epoch
    /\ UNCHANGED <<permExtraQueue, reconfVars, dispVars, configVars, heapVars, stateVars, epoch, weakPos, finalizerQueue,
                   gcMutex, objectFactoryLock, extraObjectFactoryLock, weakRefBarriers,
                   mstate, waitEpoch, markVars, finVars, obsVars>>

\* state_.finish(epoch)
STMS_Finish ==
    /\ variant = "STMS" /\ gcpc = "finish"
    /\ finishedEpoch' = epoch
    /\ gcpc' = "scheduleTasks"
    /\ milestones' = Append(milestones, "finish")
    /\ UNCHANGED <<suspLog, resumedEpoch>>
    /\ UNCHANGED <<permExtraQueue, reconfVars, dispVars, configVars, heapVars, scheduledEpoch, startedEpoch, finalizedEpoch,
                   shutdownFlag, epoch, weakPos, finalizerQueue, gcMutex,
                   objectFactoryLock, extraObjectFactoryLock, suspVars, markVars,
                   finVars, obsVars>>

\* finalizerProcessor_.ScheduleTasks(std::move(finalizerQueue), epoch)
STMS_ScheduleTasks ==
    /\ variant = "STMS" /\ gcpc = "scheduleTasks"
    /\ finalizerTasks' = Append(finalizerTasks, <<epoch, finalizerQueue>>)
    /\ finalizerQueue' = {}
    /\ gcpc' = "waitScheduled"
    /\ UNCHANGED <<permExtraQueue, reconfVars, histVars, dispVars, configVars, heapVars, stateVars, epoch, weakPos, gcMutex,
                   objectFactoryLock, extraObjectFactoryLock, suspVars, markVars,
                   finalizedObjs, obsVars>>

\* ------------------------------------------------------------ mutators
\* Objects that were never allocated.
Unallocated ==
    Obj \ (Allocated \cup freed \cup finalizerQueue \cup finalizedObjs
           \cup UNION {finalizerTasks[i][2] : i \in 1..Len(finalizerTasks)})

\* A running mutator reaches a safepoint while suspension is requested.
Safepoint(m) ==
    /\ mstate[m] = "running"
    /\ suspensionRequested
    /\ mstate' = [mstate EXCEPT ![m] = "suspended"]
    /\ UNCHANGED <<permExtraQueue, reconfVars, histVars, dispVars, configVars, heapVars, stateVars, gcVars, suspensionRequested,
                   weakRefBarriers, waitEpoch, markVars, finVars, obsVars>>

\* A suspended mutator continues once the pause is lifted; one that marks
\* for the dispatcher first returns from runOnMutator.
ResumeMutator(m) ==
    /\ mstate[m] = "suspended"
    /\ ~suspensionRequested
    /\ wstate[MutatorWorker(m)] = "out"
    /\ mstate' = [mstate EXCEPT ![m] = "running"]
    /\ UNCHANGED <<permExtraQueue, reconfVars, histVars, dispVars, configVars, heapVars, stateVars, gcVars, suspensionRequested,
                   weakRefBarriers, waitEpoch, markVars, finVars, obsVars>>

\* GC::ThreadData::CreateObject: a new, unmarked object in the thread's queue,
\* held by a local of the allocating mutator.
CreateObject(m) ==
    /\ mstate[m] = "running"
    /\ \E o \in Unallocated :
        /\ threadQueue' = [threadQueue EXCEPT ![m] = @ \cup {o}]
        /\ roots' = [roots EXCEPT ![m] = @ \cup {o}]
    /\ UNCHANGED <<permExtraQueue, reconfVars, histVars, dispVars, configVars, objectFactory, extraObjectFactory, hasFinalizer, marked,
                   refs, weak, freed, stateVars, gcVars, suspVars, markVars, finVars,
                   obsVars>>

\* GC::ThreadData::CreateExtraObjectDataForObject, installing a finalizer
CreateExtraObjectDataForObject(m) ==
    /\ mstate[m] = "running"
    /\ \E o \in (threadQueue[m] \cap roots[m]) \ hasFinalizer :
        hasFinalizer' = hasFinalizer \cup {o}
    /\ UNCHANGED <<permExtraQueue, reconfVars, histVars, dispVars, configVars, threadQueue, objectFactory, extraObjectFactory, marked,
                   refs, roots, weak, freed, stateVars, gcVars, suspVars, markVars,
                   finVars, obsVars>>

\* A mutator stores a reference to b into a field of a.
WriteField(m) ==
    /\ mstate[m] = "running"
    /\ \E a \in Closure(roots[m], refs), b \in Closure(roots[m], refs) :
        /\ b \notin refs[a]
        /\ refs' = [refs EXCEPT ![a] = @ \cup {b}]
    /\ UNCHANGED <<permExtraQueue, reconfVars, histVars, dispVars, configVars, threadQueue, objectFactory, extraObjectFactory,
                   hasFinalizer, marked, roots, weak, freed, stateVars, gcVars,
                   suspVars, markVars, finVars, obsVars>>

\* A mutator drops a root (a local goes out of scope).
DropRoot(m) ==
    /\ mstate[m] = "running"
    /\ \E o \in roots[m] : roots' = [roots EXCEPT ![m] = @ \ {o}]
    /\ UNCHANGED <<permExtraQueue, reconfVars, histVars, dispVars, configVars, threadQueue, objectFactory, extraObjectFactory,
                   hasFinalizer, marked, refs, weak, freed, stateVars, gcVars,
                   suspVars, markVars, finVars, obsVars>>

\* gc::tryRef: the load of a weak slot.
TryRef(s) == weak[s]

\* A read through a weak reference: with the barriers enabled an unmarked
\* target reads as null.
WeakRefRead(s) ==
    IF weakRefBarriers /\ TryRef(s) # NULL /\ ~IsMarked(TryRef(s))
    THEN NULL
    ELSE TryRef(s)

\* A mutator reads a weak reference and keeps the result in a local.
ReadWeak(m) ==
    /\ mstate[m] = "running"
    /\ \E s \in Slots :
        /\ weakRead' = [obj |-> WeakRefRead(s), barriers |-> weakRefBarriers,
                        epoch |-> startedEpoch]
        /\ roots' = IF WeakRefRead(s) = NULL THEN roots
                    ELSE [roots EXCEPT ![m] = @ \cup {WeakRefRead(s)}]
    /\ UNCHANGED <<permExtraQueue, reconfVars, histVars, dispVars, configVars, threadQueue, objectFactory, extraObjectFactory,
                   hasFinalizer, marked, refs, weak, freed, stateVars, gcVars,
                   suspVars, markVars, finVars, returned, liveAtMark, markedByMark,
                   publishedAtSweep, clearedWeak, oomResumed>>

\* GC::Schedule, called by the scheduler on any thread.
Schedule_AlwaysNext ==
    /\ Len(returned) < MaxCalls
    /\ scheduledEpoch' = scheduledEpoch + 1
    /\ returned' = Append(returned, scheduledEpoch + 1)
    /\ UNCHANGED <<permExtraQueue, reconfVars, histVars, dispVars, configVars, heapVars, startedEpoch, finishedEpoch, finalizedEpoch,
                   shutdownFlag, gcVars, suspVars, markVars, finVars, liveAtMark,
                   markedByMark, publishedAtSweep, weakRead, clearedWeak, oomResumed>>

Schedule ==
    /\ Len(returned) < MaxCalls
    /\ scheduledEpoch' = ScheduleResult
    /\ returned' = Append(returned, ScheduleResult)
    /\ UNCHANGED <<permExtraQueue, reconfVars, histVars, dispVars, configVars, heapVars, startedEpoch, finishedEpoch, finalizedEpoch,
                   shutdownFlag, gcVars, suspVars, markVars, finVars, liveAtMark,
                   markedByMark, publishedAtSweep, weakRead, clearedWeak, oomResumed>>

\* ThreadData::OnOOM: scheduleAndWaitFinished schedules an epoch and blocks
\* the thread, in the native state, in WaitFinished.
OnOOM(m) ==
    /\ mstate[m] = "running"
    /\ Len(returned) < MaxCalls
    /\ scheduledEpoch' = ScheduleResult
    /\ returned' = Append(returned, ScheduleResult)
    /\ waitEpoch' = [waitEpoch EXCEPT ![m] = ScheduleResult]
    /\ mstate' = [mstate EXCEPT ![m] = "native"]
    /\ UNCHANGED <<permExtraQueue, reconfVars, histVars, dispVars, configVars, heapVars, startedEpoch, finishedEpoch, finalizedEpoch,
                   shutdownFlag, gcVars, suspensionRequested, weakRefBarriers,
                   markVars, finVars, liveAtMark, markedByMark, publishedAtSweep,
                   weakRead, clearedWeak, oomResumed>>

\* WaitFinished releases the thread; leaving the native state is a safepoint.
OnOOMReturn_NoWait(m) ==
    /\ mstate[m] = "native"
    /\ mstate' = [mstate EXCEPT ![m] = IF suspensionRequested THEN "suspended"
                                       ELSE "running"]
    /\ oomResumed' = [oomResumed EXCEPT ![m] = waitEpoch[m]]
    /\ UNCHANGED <<permExtraQueue, reconfVars, histVars, dispVars, configVars, heapVars, stateVars, gcVars, suspensionRequested,
                   weakRefBarriers, waitEpoch, markVars, finVars, returned, liveAtMark,
                   markedByMark, publishedAtSweep, weakRead, clearedWeak>>

OnOOMReturn(m) ==
    /\ mstate[m] = "native"
    /\ WaitFinished(waitEpoch[m])
    /\ mstate' = [mstate EXCEPT ![m] = IF suspensionRequested THEN "suspended"
                                       ELSE "running"]
    /\ oomResumed' = [oomResumed EXCEPT ![m] = waitEpoch[m]]
    /\ UNCHANGED <<permExtraQueue, reconfVars, histVars, dispVars, configVars, heapVars, stateVars, gcVars, suspensionRequested,
                   weakRefBarriers, waitEpoch, markVars, finVars, returned, liveAtMark,
                   markedByMark, publishedAtSweep, weakRead, clearedWeak>>

\* ---------------------------------------------- finalizer processor
\* The callback given to the finalizer processor: finalizersDone;
\* state_.finalized(epoch).
EpochDoneCallback_NextEpoch(e) == finalizedEpoch' = e + 1
EpochDoneCallback(e) == finalizedEpoch' = e

\* The finalizer thread takes the oldest batch, runs its finalizers and
\* calls the callback.
FinalizerThread ==
    /\ finalizerTasks # <<>>
    /\ finalizedObjs' = finalizedObjs \cup Head(finalizerTasks)[2]
    /\ EpochDoneCallback(Head(finalizerTasks)[1])
    /\ finalizerTasks' = Tail(finalizerTasks)
    /\ UNCHANGED <<permExtraQueue, reconfVars, histVars, dispVars, configVars, heapVars, scheduledEpoch, startedEpoch, finishedEpoch,
                   shutdownFlag, gcVars, suspVars, markVars, obsVars>>

\* ------------------------------------------- auxiliary GC threads, shutdown
\* auxiliaryGCThreadBody: while (!shutdownRequested()) runAuxiliary()
AuxLoop(a) ==
    /\ a \in auxThreads /\ auxpc[a] = "loop"
    /\ auxpc' = [auxpc EXCEPT ![a] = IF shutdownRequested THEN "exited" ELSE "run"]
    /\ UNCHANGED <<permExtraQueue, reconfVars, histVars, dispVars, configVars, heapVars, stateVars, gcVars, suspVars,
                   shutdownRequested, markingActive, finVars, obsVars>>

\* runAuxiliary blocks until a mark begins or shutdown is requested.
RunAuxiliary(a) ==
    /\ a \in auxThreads /\ auxpc[a] = "run"
    /\ markingActive \/ shutdownRequested
    /\ auxpc' = [auxpc EXCEPT ![a] = "loop"]
    /\ UNCHANGED <<permExtraQueue, reconfVars, histVars, dispVars, configVars, heapVars, stateVars, gcVars, suspVars,
                   shutdownRequested, markingActive, finVars, obsVars>>

\* ~ConcurrentMarkAndSweep / ~SameThreadMarkAndSweep: state_.shutdown()
Shutdown_AbortsActiveEpoch ==
    /\ ~shutdownFlag
    /\ shutdownFlag' = TRUE
    /\ gcpc' = IF startedEpoch > finishedEpoch THEN "aborted" ELSE gcpc
    /\ UNCHANGED <<permExtraQueue, reconfVars, histVars, dispVars, configVars, heapVars, scheduledEpoch, startedEpoch, finishedEpoch,
                   finalizedEpoch, epoch, weakPos, finalizerQueue, gcMutex,
                   objectFactoryLock, extraObjectFactoryLock, suspVars, markVars,
                   finVars, obsVars>>

Shutdown ==
    /\ ~shutdownFlag
    /\ shutdownFlag' = TRUE
    /\ UNCHANGED <<permExtraQueue, reconfVars, histVars, dispVars, configVars, heapVars, scheduledEpoch, startedEpoch, finishedEpoch,
                   finalizedEpoch, gcVars, suspVars, markVars, finVars, obsVars>>

\* checkMarkCorrectness over the heap: every heap object that a field of a
\* marked object points to is marked.
CheckMarkCorrectness(heap) ==
    \A o \in heap : o \in marked => \A f \in refs[o] : IsHeap(f) => f \in marked

\* --------------------------------------------- mark dispatcher: workers
\* What the steps of a mark worker leave alone.
markFrame == <<permExtraQueue, reconfVars, histVars, configVars, threadQueue, objectFactory, extraObjectFactory, hasFinalizer,
               refs, roots, weak, freed, stateVars, suspVars, shutdownRequested,
               finVars, mutatorsCooperate, epoch, finalizerQueue, gcMutex,
               objectFactoryLock, extraObjectFactoryLock, returned, publishedAtSweep,
               weakRead, oomResumed>>

\* The worklist is empty: no worker's buffer holds a gray object.
WorklistEmpty == \A w \in Workers : local[w] = {}

\* runMainInSTW is entered: the main GC thread becomes an active worker and
\* starts with the root sets.
CMS_RunMainInSTW_Enter ==
    /\ variant = "CMS" /\ gcpc = "mark"
    /\ gcpc' = "marking"
    /\ wstate' = [wstate EXCEPT ![MainWorker] = "roots"]
    /\ rootPos' = [rootPos EXCEPT ![MainWorker] = 1]
    /\ activeWorkers' = activeWorkers + 1
    /\ UNCHANGED <<markFrame, marked, markingActive, auxpc, weakPos, liveAtMark,
                   markedByMark, clearedWeak, flagVars, local, markingComplete>>

\* runAuxiliary on an auxiliary GC thread: a mark has begun, the thread
\* becomes an active worker.
RunAuxiliary_Enter(a) ==
    /\ a \in auxThreads /\ auxpc[a] = "run"
    /\ markingActive /\ ~markingComplete
    /\ auxpc' = [auxpc EXCEPT ![a] = "marking"]
    /\ wstate' = [wstate EXCEPT ![AuxWorker(a)] = "roots"]
    /\ rootPos' = [rootPos EXCEPT ![AuxWorker(a)] = 1]
    /\ activeWorkers' = activeWorkers + 1
    /\ UNCHANGED <<markFrame, marked, markingActive, gcpc, weakPos, liveAtMark,
                   markedByMark, clearedWeak, flagVars, local, markingComplete>>

\* A suspended mutator that is counted as a worker of this mark but never
\* runs the dispatcher's loop.
OnSuspendForGC_CountedOnly(m) ==
    /\ variant = "CMS" /\ mutatorsCooperate
    /\ mstate[m] = "suspended" /\ suspensionRequested
    /\ markingActive /\ ~markingComplete
    /\ ~cooperative[m]
    /\ cooperative' = [cooperative EXCEPT ![m] = TRUE]
    /\ activeWorkers' = activeWorkers + 1
    /\ UNCHANGED <<markFrame, marked, markingActive, gcpc, auxpc, weakPos, liveAtMark,
                   markedByMark, clearedWeak, rootSetLocked, published, claimCount,
                   local, markingComplete, wstate, rootPos>>

\* ThreadData::OnSuspendForGC: a mutator suspended for this mark enters
\* runOnMutator, sets cooperative and becomes an active worker.
OnSuspendForGC(m) ==
    /\ variant = "CMS" /\ mutatorsCooperate
    /\ mstate[m] = "suspended" /\ suspensionRequested
    /\ markingActive /\ ~markingComplete
    /\ ~cooperative[m]
    /\ cooperative' = [cooperative EXCEPT ![m] = TRUE]
    /\ wstate' = [wstate EXCEPT ![MutatorWorker(m)] = "roots"]
    /\ rootPos' = [rootPos EXCEPT ![MutatorWorker(m)] = 1]
    /\ activeWorkers' = activeWorkers + 1
    /\ UNCHANGED <<markFrame, marked, markingActive, gcpc, auxpc, weakPos, liveAtMark,
                   markedByMark, clearedWeak, rootSetLocked, published, claimCount,
                   local, markingComplete>>

\* Root acquisition: the worker calls tryLockRootSet on the next mutator; the
\* winner goes on to scan that root set, a loser moves to the next mutator.
TryLockNextRootSet(w) ==
    /\ gcpc = "marking" /\ wstate[w] = "roots"
    /\ rootPos[w] \in Mutators
    /\ rootSetLocked' = [rootSetLocked EXCEPT ![rootPos[w]] = TRUE]
    /\ IF TryLockRootSet(rootPos[w])
       THEN /\ claimCount' = [claimCount EXCEPT ![rootPos[w]] = @ + 1]
            /\ wstate' = [wstate EXCEPT ![w] = "scan"]
            /\ rootPos' = rootPos
       ELSE /\ claimCount' = claimCount
            /\ wstate' = wstate
            /\ rootPos' = [rootPos EXCEPT ![w] = @ + 1]
    /\ UNCHANGED <<markFrame, marked, markingActive, gcpc, auxpc, weakPos, liveAtMark,
                   markedByMark, clearedWeak, cooperative, published, local,
                   activeWorkers, markingComplete>>

\* The winner publishes the mutator (ThreadData::publish) and scans its
\* root set: every unmarked heap object among the roots is marked and pushed.
ScanRootSet(w) ==
    /\ gcpc = "marking" /\ wstate[w] = "scan"
    /\ published' = [published EXCEPT ![rootPos[w]] = TRUE]
    /\ marked' = marked \cup {o \in roots[rootPos[w]] : IsHeap(o)}
    /\ local' = [local EXCEPT ![w] = @ \cup {o \in roots[rootPos[w]] :
                                                 IsHeap(o) /\ o \notin marked}]
    /\ wstate' = [wstate EXCEPT ![w] = "roots"]
    /\ rootPos' = [rootPos EXCEPT ![w] = @ + 1]
    /\ UNCHANGED <<markFrame, markingActive, gcpc, auxpc, weakPos, liveAtMark,
                   markedByMark, clearedWeak, rootSetLocked, cooperative, claimCount,
                   activeWorkers, markingComplete>>

\* Every mutator's root set has been tried: the worker turns to the worklist.
RootSetsDone(w) ==
    /\ gcpc = "marking" /\ wstate[w] = "roots"
    /\ rootPos[w] \notin Mutators
    /\ wstate' = [wstate EXCEPT ![w] = "mark"]
    /\ UNCHANGED <<markFrame, marked, markingActive, gcpc, auxpc, weakPos, liveAtMark,
                   markedByMark, clearedWeak, flagVars, rootPos, local, activeWorkers,
                   markingComplete>>

\* Mark algorithm: pop a gray object; each field that points to a heap
\* object whose mark word goes from 0 to 1 is pushed.
MarkObject(w) ==
    /\ gcpc = "marking" /\ wstate[w] = "mark"
    /\ \E o \in local[w] :
        /\ marked' = marked \cup {f \in refs[o] : IsHeap(f)}
        /\ local' = [local EXCEPT ![w] =
                        (@ \ {o}) \cup {f \in refs[o] : IsHeap(f) /\ f \notin marked}]
    /\ UNCHANGED <<markFrame, markingActive, gcpc, auxpc, weakPos, liveAtMark,
                   markedByMark, clearedWeak, flagVars, wstate, rootPos, activeWorkers,
                   markingComplete>>

\* A worker whose buffer is empty steals a gray object from another worker
\* that has more than the one it is working on (only surplus work is shared).
Steal(w) ==
    /\ gcpc = "marking" /\ wstate[w] = "mark"
    /\ local[w] = {}
    /\ \E v \in Workers \ {w} : \E o \in local[v] :
        /\ Cardinality(local[v]) > 1
        /\ local' = [local EXCEPT ![v] = @ \ {o}, ![w] = {o}]
    /\ UNCHANGED <<markFrame, marked, markingActive, gcpc, auxpc, weakPos, liveAtMark,
                   markedByMark, clearedWeak, flagVars, wstate, rootPos, activeWorkers,
                   markingComplete>>

\* Quiescence: a worker whose buffer is empty and that finds nothing to steal
\* decrements the count of active workers; the last one to do so, seeing the
\* worklist empty, signals markingComplete.
Quiesce(w) ==
    /\ gcpc = "marking" /\ wstate[w] = "mark"
    /\ WorklistEmpty
    /\ activeWorkers' = activeWorkers - 1
    /\ wstate' = [wstate EXCEPT ![w] = "idle"]
    /\ markingComplete' = (activeWorkers = 1)
    /\ UNCHANGED <<markFrame, marked, markingActive, gcpc, auxpc, weakPos, liveAtMark,
                   markedByMark, clearedWeak, flagVars, rootPos, local>>

\* A worker that had given up re-checks, finds work, increments the count
\* again and takes the work.
Reactivate(w) ==
    /\ gcpc = "marking" /\ wstate[w] = "idle"
    /\ ~markingComplete
    /\ \E v \in Workers \ {w} : \E o \in local[v] :
        /\ Cardinality(local[v]) > 1
        /\ local' = [local EXCEPT ![v] = @ \ {o}, ![w] = {o}]
    /\ activeWorkers' = activeWorkers + 1
    /\ wstate' = [wstate EXCEPT ![w] = "mark"]
    /\ UNCHANGED <<markFrame, marked, markingActive, gcpc, auxpc, weakPos, liveAtMark,
                   markedByMark, clearedWeak, flagVars, rootPos, markingComplete>>

\* runAuxiliary returns on markingComplete.
RunAuxiliary_Return(a) ==
    /\ a \in auxThreads /\ auxpc[a] = "marking"
    /\ wstate[AuxWorker(a)] = "idle" /\ markingComplete
    /\ wstate' = [wstate EXCEPT ![AuxWorker(a)] = "out"]
    /\ auxpc' = [auxpc EXCEPT ![a] = "loop"]
    /\ UNCHANGED <<markFrame, marked, markingActive, gcpc, weakPos, liveAtMark,
                   markedByMark, clearedWeak, flagVars, rootPos, local, activeWorkers,
                   markingComplete>>

\* runOnMutator returns on markingComplete: the mutator is back in its
\* suspended wait.
RunOnMutator_Return(m) ==
    /\ wstate[MutatorWorker(m)] = "idle" /\ markingComplete
    /\ wstate' = [wstate EXCEPT ![MutatorWorker(m)] = "out"]
    /\ UNCHANGED <<markFrame, marked, markingActive, gcpc, auxpc, weakPos, liveAtMark,
                   markedByMark, clearedWeak, flagVars, rootPos, local, activeWorkers,
                   markingComplete>>

\* runMainInSTW returns on markingComplete; endMarkingEpoch.
CMS_RunMainInSTW_ReturnEarly ==
    /\ variant = "CMS" /\ gcpc = "marking"
    /\ wstate[MainWorker] = "idle"
    /\ wstate' = [wstate EXCEPT ![MainWorker] = "out"]
    /\ markingActive' = FALSE
    /\ liveAtMark' = Closure(RootSet, refs)
    /\ markedByMark' = marked
    /\ clearedWeak' = {}
    /\ weakPos' = 1
    /\ gcpc' = IF concurrentWeakSweep THEN "enableBarriers" ELSE "weaks"
    /\ UNCHANGED <<markFrame, marked, auxpc, flagVars, rootPos, local, activeWorkers,
                   markingComplete>>

CMS_RunMainInSTW_Return ==
    /\ variant = "CMS" /\ gcpc = "marking"
    /\ wstate[MainWorker] = "idle" /\ markingComplete
    /\ wstate' = [wstate EXCEPT ![MainWorker] = "out"]
    /\ markingActive' = FALSE
    /\ liveAtMark' = Closure(RootSet, refs)
    /\ markedByMark' = marked
    /\ clearedWeak' = {}
    /\ weakPos' = 1
    /\ gcpc' = IF concurrentWeakSweep THEN "enableBarriers" ELSE "weaks"
    /\ UNCHANGED <<markFrame, marked, auxpc, flagVars, rootPos, local, activeWorkers,
                   markingComplete>>

\* The steps of one mark worker.
WorkerStep(w) ==
    \/ TryLockNextRootSet(w) \/ ScanRootSet(w) \/ RootSetsDone(w)
    \/ MarkObject(w) \/ Steal(w) \/ Quiesce(w) \/ Reactivate(w)

\* ------------------------------------------------------ specifications
\* The state common to every start: a constructed collector, its GC thread
\* waiting in waitScheduled, every mutator running.
InitCollector ==
    /\ variant \in {"STMS", "CMS"}
    /\ concurrentWeakSweep \in (IF variant = "CMS" THEN BOOLEAN ELSE {FALSE})
    /\ objectFactory = {} /\ extraObjectFactory = {} /\ marked = {} /\ freed = {}
    /\ startedEpoch = 0 /\ finishedEpoch = 0 /\ finalizedEpoch = 0
    /\ shutdownFlag = FALSE
    /\ gcpc = "waitScheduled" /\ epoch = 0 /\ weakPos = 1 /\ finalizerQueue = {}
    /\ gcMutex = FALSE /\ objectFactoryLock = FALSE /\ extraObjectFactoryLock = FALSE
    /\ suspensionRequested = FALSE /\ weakRefBarriers = FALSE
    /\ mstate = [m \in Mutators |-> "running"]
    /\ waitEpoch = [m \in Mutators |-> 0]
    /\ shutdownRequested = FALSE /\ markingActive = FALSE
    /\ auxpc = [a \in Aux |-> "loop"]
    /\ finalizerTasks = <<>> /\ finalizedObjs = {}
    /\ liveAtMark = {} /\ markedByMark = {} /\ publishedAtSweep = {}
    /\ weakRead = [obj |-> NULL, barriers |-> FALSE, epoch |-> 0]
    /\ clearedWeak = {}
    /\ oomResumed = [m \in Mutators |-> 0]
    /\ cooperative = [m \in Mutators |-> FALSE]
    /\ published = [m \in Mutators |-> FALSE]
    /\ claimCount = [m \in Mutators |-> 0]
    /\ wstate = [w \in Workers |-> "out"]
    /\ rootPos = [w \in Workers |-> 1]
    /\ local = [w \in Workers |-> {}]
    /\ activeWorkers = 0
    /\ markingComplete = FALSE
    /\ suspLog = <<>> /\ milestones = <<>> /\ resumedEpoch = 0
    /\ reconfpc = "idle" /\ reconfCalls = 0
    /\ permExtraQueue = [m \in Mutators |-> {}]

\* One collection over any heap graph: the first mutator has allocated the
\* objects of A and holds some of them as roots, the registry holds weak
\* references to some of them, and a collection has been scheduled.
Init ==
    /\ InitCollector
    /\ gcMarkSingleThreaded = FALSE
    /\ auxThreads = {}
    /\ mutatorsCooperate = FALSE
    /\ rootSetLocked = [m \in Mutators |-> FALSE]
    /\ \E A \in SUBSET Obj :
        /\ threadQueue = [m \in Mutators |-> IF m = 1 THEN A ELSE {}]
        /\ refs \in {r \in [Obj -> SUBSET Obj] :
                        \A o \in Obj : r[o] \subseteq (IF o \in A THEN A ELSE {})}
        /\ roots \in {r \in [Mutators -> SUBSET A] : \A m \in Mutators \ {1} : r[m] = {}}
        /\ hasFinalizer \in SUBSET A
        /\ weak \in [Slots -> A \cup {NULL}]
    /\ scheduledEpoch = 1
    /\ returned = <<1>>

GCThread ==
    \/ CMS_mainGCThreadBody \/ CMS_BeginMarkingEpoch \/ CMS_RequestThreadsSuspension
    \/ CMS_WaitForThreadsPauseMutation \/ CMS_Start \/ CMS_RunMainInSTW
    \/ CMS_EnableWeakRefBarriers \/ CMS_ResumeThreadsForWeaks \/ CMS_ProcessWeaks
    \/ CMS_RequestThreadsSuspensionAgain \/ CMS_WaitAndDisableWeakRefBarriers
    \/ CMS_PublishAndLock \/ CMS_ResumeThreads \/ CMS_SweepExtraObjects \/ CMS_Sweep
    \/ CMS_Finish \/ CMS_ScheduleTasks
    \/ STMS_GCThreadBody \/ STMS_RequestThreadsSuspension
    \/ STMS_WaitForThreadsSuspension \/ STMS_Start \/ STMS_Mark \/ STMS_ProcessWeaks
    \/ STMS_PublishAndLock \/ STMS_SweepExtraObjects \/ STMS_Sweep
    \/ STMS_ResumeThreads \/ STMS_Finish \/ STMS_ScheduleTasks

Next ==
    \/ GCThread
    \/ FinalizerThread
    \/ \E m \in Mutators :
        \/ Safepoint(m) \/ ResumeMutator(m)
        \/ CreateObject(m) \/ CreateExtraObjectDataForObject(m)
        \/ WriteField(m) \/ DropRoot(m) \/ ReadWeak(m)

Spec == Init /\ [][Next]_vars

\* Several epochs: scheduling, the OOM path, the finalizer thread, the
\* auxiliary threads and shutdown, over a heap that holds at most one
\* unreachable object with a finalizer.
InitEpoch ==
    /\ InitCollector
    /\ gcMarkSingleThreaded = FALSE
    /\ mutatorsCooperate = FALSE
    /\ rootSetLocked = [m \in Mutators |-> FALSE]
    /\ auxThreads = IF variant = "CMS" THEN Aux ELSE {}
    /\ \E G \in SUBSET {1} :
        /\ threadQueue = [m \in Mutators |-> IF m = 1 THEN G ELSE {}]
        /\ hasFinalizer = G
    /\ refs = [o \in Obj |-> {}]
    /\ roots = [m \in Mutators |-> {}]
    /\ weak = [s \in Slots |-> NULL]
    /\ scheduledEpoch = 0
    /\ returned = <<>>

NextEpoch ==
    \/ GCThread
    \/ FinalizerThread
    \/ Schedule
    \/ Shutdown
    \/ \E m \in Mutators :
        \/ Safepoint(m) \/ ResumeMutator(m) \/ OnOOM(m) \/ OnOOMReturn(m)
    \/ \E a \in Aux : AuxLoop(a) \/ RunAuxiliary(a)

\* The threads are scheduled fairly: the GC thread, the finalizer thread and
\* the auxiliary threads keep running, a mutator reaches its next safepoint,
\* and a released mutator continues.
Fairness ==
    /\ WF_vars(GCThread)
    /\ WF_vars(FinalizerThread)
    /\ \A m \in Mutators :
        WF_vars(Safepoint(m)) /\ WF_vars(ResumeMutator(m)) /\ WF_vars(OnOOMReturn(m))
    /\ \A a \in Aux : WF_vars(AuxLoop(a)) /\ WF_vars(RunAuxiliary(a))

SpecEpoch == InitEpoch /\ [][NextEpoch]_vars /\ Fairness

\* Shutdown while an epoch is in flight: the collector is destroyed when an
\* epoch is Started and not yet Finished, and only then.
ShutdownDuringEpoch ==
    /\ startedEpoch > finishedEpoch
    /\ Shutdown

NextShutdown ==
    \/ GCThread
    \/ FinalizerThread
    \/ Schedule
    \/ ShutdownDuringEpoch
    \/ \E m \in Mutators : Safepoint(m) \/ ResumeMutator(m)
    \/ \E a \in Aux : AuxLoop(a) \/ RunAuxiliary(a)

SpecShutdown == InitEpoch /\ [][NextShutdown]_vars /\ Fairness

\* The mark phase of one CMS epoch, worker by worker: any heap graph with
\* roots on every mutator, with or without cooperating mutators, the mark
\* flags either fresh or as the previous epoch left them.
InitMark ==
    /\ InitCollector
    /\ gcMarkSingleThreaded = FALSE
    /\ variant = "CMS" /\ concurrentWeakSweep = FALSE
    /\ auxThreads = Aux
    /\ mutatorsCooperate \in BOOLEAN
    /\ rootSetLocked \in {[m \in Mutators |-> FALSE], [m \in Mutators |-> TRUE]}
    /\ threadQueue = [m \in Mutators |-> IF m = 1 THEN Obj ELSE {}]
    /\ refs \in {r \in [Obj -> SUBSET Obj] : \A o \in Obj : o \notin r[o]}
    /\ roots \in [Mutators -> SUBSET Obj]
    /\ hasFinalizer = {}
    /\ weak = [s \in Slots |-> NULL]
    /\ scheduledEpoch = 1
    /\ returned = <<1>>

\* The main GC thread up to the end of runMainInSTW.
MarkGCThread ==
    \/ CMS_mainGCThreadBody \/ CMS_BeginMarkingEpoch \/ CMS_RequestThreadsSuspension
    \/ CMS_WaitForThreadsPauseMutation \/ CMS_Start
    \/ CMS_RunMainInSTW_Enter \/ CMS_RunMainInSTW_Return

NextMark ==
    \/ MarkGCThread
    \/ \E w \in Workers : WorkerStep(w)
    \/ \E a \in Aux : AuxLoop(a) \/ RunAuxiliary_Enter(a) \/ RunAuxiliary_Return(a)
    \/ \E m \in Mutators : Safepoint(m) \/ OnSuspendForGC(m) \/ RunOnMutator_Return(m)

\* The GC thread, every worker that has joined and every mutator on its way
\* to a safepoint keep running.
FairnessMark ==
    /\ WF_vars(MarkGCThread)
    /\ \A w \in Workers : WF_vars(WorkerStep(w))
    /\ \A a \in Aux : WF_vars(RunAuxiliary_Return(a))
    /\ \A m \in Mutators : WF_vars(Safepoint(m)) /\ WF_vars(RunOnMutator_Return(m))

SpecMark == InitMark /\ [][NextMark]_vars /\ FairnessMark

\* The mark phase over heaps whose flags are clear at the start (the first
\* epoch), with the objects rooted in one mutator or spread over both.
InitTermination ==
    /\ InitMark
    /\ rootSetLocked = [m \in Mutators |-> FALSE]
    /\ \/ roots[1] = Obj /\ roots[2] = {}
       \/ roots[1] = {1} /\ roots[2] \subseteq {2}

SpecTermination == InitTermination /\ [][NextMark]_vars /\ FairnessMark

\* ------------------------------------------------ terminating threads
\* A thread that terminates publishes its thread-local queues:
\* GC::ThreadData::PublishObjectFactory publishes the extra-object queue
\* first, then the object queue; each Publish takes the lock of its global
\* factory, which LockForIter holds during an iteration.
ThreadExit_PublishExtra(m) ==
    /\ mstate[m] = "running"
    /\ ~extraObjectFactoryLock
    /\ extraObjectFactory' = extraObjectFactory \cup (threadQueue[m] \cap hasFinalizer)
                                \cup permExtraQueue[m]
    /\ permExtraQueue' = [permExtraQueue EXCEPT ![m] = {}]
    /\ mstate' = [mstate EXCEPT ![m] = "exiting"]
    /\ UNCHANGED <<reconfVars, histVars, dispVars, configVars, threadQueue, objectFactory, hasFinalizer,
                   marked, refs, roots, weak, freed, stateVars, gcVars,
                   suspensionRequested, weakRefBarriers, waitEpoch, markVars, finVars,
                   obsVars>>

\* The object queue is published without regard to the factory's lock.
ThreadExit_PublishObjects_NoLock(m) ==
    /\ mstate[m] = "exiting"
    /\ objectFactory' = objectFactory \cup threadQueue[m]
    /\ threadQueue' = [threadQueue EXCEPT ![m] = {}]
    /\ roots' = [roots EXCEPT ![m] = {}]
    /\ mstate' = [mstate EXCEPT ![m] = "terminated"]
    /\ UNCHANGED <<permExtraQueue, reconfVars, histVars, dispVars, configVars, extraObjectFactory, hasFinalizer, marked,
                   refs, weak, freed, stateVars, gcVars, suspensionRequested,
                   weakRefBarriers, waitEpoch, markVars, finVars, obsVars>>

\* The object queue is published; the thread is gone and its roots with it.
\* A thread that is no longer registered does not hold up a suspension.
ThreadExit_PublishObjects(m) ==
    /\ mstate[m] = "exiting"
    /\ ~objectFactoryLock
    /\ objectFactory' = objectFactory \cup threadQueue[m]
    /\ threadQueue' = [threadQueue EXCEPT ![m] = {}]
    /\ roots' = [roots EXCEPT ![m] = {}]
    /\ mstate' = [mstate EXCEPT ![m] = "terminated"]
    /\ UNCHANGED <<permExtraQueue, reconfVars, histVars, dispVars, configVars, extraObjectFactory, hasFinalizer, marked,
                   refs, weak, freed, stateVars, gcVars, suspensionRequested,
                   weakRefBarriers, waitEpoch, markVars, finVars, obsVars>>

\* The concurrent collector's main GC thread.
CMSGCThread ==
    \/ CMS_mainGCThreadBody \/ CMS_BeginMarkingEpoch \/ CMS_RequestThreadsSuspension
    \/ CMS_WaitForThreadsPauseMutation \/ CMS_Start \/ CMS_RunMainInSTW
    \/ CMS_EnableWeakRefBarriers \/ CMS_ResumeThreadsForWeaks \/ CMS_ProcessWeaks
    \/ CMS_RequestThreadsSuspensionAgain \/ CMS_WaitAndDisableWeakRefBarriers
    \/ CMS_PublishAndLock \/ CMS_ResumeThreads \/ CMS_SweepExtraObjects \/ CMS_Sweep
    \/ CMS_Finish \/ CMS_ScheduleTasks

\* One collection of the concurrent collector, with mutators that allocate
\* and threads that terminate at any time.
InitSweep ==
    /\ Init
    /\ variant = "CMS"
    /\ weak = [s \in Slots |-> NULL]

NextSweep ==
    \/ CMSGCThread
    \/ FinalizerThread
    \/ \E m \in Mutators :
        \/ Safepoint(m) \/ ResumeMutator(m)
        \/ CreateObject(m) \/ CreateExtraObjectDataForObject(m)
        \/ WriteField(m) \/ DropRoot(m)
        \/ ThreadExit_PublishExtra(m) \/ ThreadExit_PublishObjects(m)

SpecSweep == InitSweep /\ [][NextSweep]_vars

\* ------------------------------------- extra-object data, permanent bases
\* GC::ThreadData::CreateExtraObjectDataForObject for a permanent object:
\* the entry goes to the thread-local extra-object queue.
CreateExtraObjectDataForPermanent(m) ==
    /\ mstate[m] = "running"
    /\ \E o \in Permanent \ (extraObjectFactory \cup
                               UNION {permExtraQueue[n] : n \in Mutators}) :
        permExtraQueue' = [permExtraQueue EXCEPT ![m] = @ \cup {o}]
    /\ UNCHANGED <<reconfVars, histVars, dispVars, configVars, heapVars, stateVars, gcVars,
                   suspVars, markVars, finVars, obsVars>>

\* One collection of either collector over heaps in which heap objects and
\* permanent objects carry extra-object data.
InitExtra ==
    /\ Init
    /\ weak = [s \in Slots |-> NULL]
    /\ \A o \in Obj : refs[o] = {}

NextExtra ==
    \/ GCThread
    \/ FinalizerThread
    \/ \E m \in Mutators :
        \/ Safepoint(m) \/ ResumeMutator(m)
        \/ CreateExtraObjectDataForObject(m) \/ CreateExtraObjectDataForPermanent(m)
        \/ DropRoot(m)

SpecExtra == InitExtra /\ [][NextExtra]_vars

\* ------------------------------------------------------ reconfiguration
\* ConcurrentMarkAndSweep::reconfigure is called by some thread.
Reconfigure_Call ==
    /\ variant = "CMS"
    /\ reconfpc = "idle" /\ reconfCalls < MaxReconf
    /\ reconfpc' = "called"
    /\ reconfCalls' = reconfCalls + 1
    /\ UNCHANGED <<permExtraQueue, gcMarkSingleThreaded, histVars, dispVars, configVars, heapVars, stateVars,
                   gcVars, suspVars, markVars, finVars, obsVars>>

\* if (compiler::gcMarkSingleThreaded()) { RuntimeCheck(auxGCThreads == 0); return; }
Reconfigure_SingleThreaded ==
    /\ reconfpc = "called" /\ gcMarkSingleThreaded
    /\ \E auxGCThreads \in 0..NumAux :
        reconfpc' = IF auxGCThreads = 0 THEN "idle" ELSE "aborted"
    /\ UNCHANGED <<permExtraQueue, gcMarkSingleThreaded, reconfCalls, histVars, dispVars, configVars, heapVars,
                   stateVars, gcVars, suspVars, markVars, finVars, obsVars>>

\* reconfigure goes on without taking gcMutex.
Reconfigure_Lock_NoMutex ==
    /\ reconfpc = "called" /\ ~gcMarkSingleThreaded
    /\ gcMutex' = TRUE
    /\ reconfpc' = "locked"
    /\ UNCHANGED <<permExtraQueue, gcMarkSingleThreaded, reconfCalls, histVars, dispVars, configVars, heapVars,
                   stateVars, gcpc, epoch, weakPos, finalizerQueue, objectFactoryLock,
                   extraObjectFactoryLock, suspVars, markVars, finVars, obsVars>>

\* std::unique_lock mainGCLock(gcMutex)
Reconfigure_Lock ==
    /\ reconfpc = "called" /\ ~gcMarkSingleThreaded
    /\ ~gcMutex
    /\ gcMutex' = TRUE
    /\ reconfpc' = "locked"
    /\ UNCHANGED <<permExtraQueue, gcMarkSingleThreaded, reconfCalls, histVars, dispVars, configVars, heapVars,
                   stateVars, gcpc, epoch, weakPos, finalizerQueue, objectFactoryLock,
                   extraObjectFactoryLock, suspVars, markVars, finVars, obsVars>>

\* markDispatcher_.reset(maxParallelism, mutatorsCooperate, teardown): the
\* dispatcher takes the new parameters and the teardown callback,
\* auxThreads_.clear(), drains the auxiliary threads.
Reconfigure_Reset ==
    /\ reconfpc = "locked"
    /\ mutatorsCooperate' \in BOOLEAN
    /\ auxThreads' = {}
    /\ auxpc' = [a \in Aux |-> "loop"]
    /\ reconfpc' = "reset"
    /\ UNCHANGED <<permExtraQueue, gcMarkSingleThreaded, reconfCalls, histVars, flagVars, workVars, variant,
                   concurrentWeakSweep, heapVars, stateVars, gcVars, suspVars,
                   shutdownRequested, markingActive, finVars, obsVars>>

\* auxThreads_.emplace_back(...) auxGCThreads times; reconfigure returns and
\* mainGCLock is released.
Reconfigure_Rebuild ==
    /\ reconfpc = "reset"
    /\ \E auxGCThreads \in 0..NumAux : auxThreads' = 1..auxGCThreads
    /\ gcMutex' = FALSE
    /\ reconfpc' = "idle"
    /\ UNCHANGED <<permExtraQueue, gcMarkSingleThreaded, reconfCalls, histVars, dispVars, variant,
                   concurrentWeakSweep, heapVars, stateVars, gcpc, epoch, weakPos,
                   finalizerQueue, objectFactoryLock, extraObjectFactoryLock, suspVars,
                   markVars, finVars, obsVars>>

Reconfigure ==
    \/ Reconfigure_Call \/ Reconfigure_SingleThreaded \/ Reconfigure_Lock
    \/ Reconfigure_Reset \/ Reconfigure_Rebuild

\* Epochs of the concurrent collector while some thread reconfigures it, in
\* either build mode.
InitReconfigure ==
    /\ InitCollector
    /\ variant = "CMS"
    /\ gcMarkSingleThreaded \in BOOLEAN
    /\ mutatorsCooperate = FALSE
    /\ rootSetLocked = [m \in Mutators |-> FALSE]
    /\ auxThreads = IF gcMarkSingleThreaded THEN {} ELSE Aux
    /\ \E G \in SUBSET {1} :
        /\ threadQueue = [m \in Mutators |-> IF m = 1 THEN G ELSE {}]
        /\ hasFinalizer = G
    /\ refs = [o \in Obj |-> {}]
    /\ roots = [m \in Mutators |-> {}]
    /\ weak = [s \in Slots |-> NULL]
    /\ scheduledEpoch = 0
    /\ returned = <<>>

NextReconfigure ==
    \/ CMSGCThread
    \/ FinalizerThread
    \/ Schedule
    \/ Reconfigure
    \/ \E m \in Mutators : Safepoint(m) \/ ResumeMutator(m)
    \/ \E a \in Aux : AuxLoop(a) \/ RunAuxiliary(a)

SpecReconfigure == InitReconfigure /\ [][NextReconfigure]_vars

\* ------------------------------------------------------------- claims
\* Objects handed to the finalizer pipeline: in PerformFullGC's finalizer
\* queue, in a scheduled batch, or already finalized.
InFinalization ==
    finalizerQueue \cup finalizedObjs
        \cup UNION {finalizerTasks[i][2] : i \in 1..Len(finalizerTasks)}

\* PerformFullGC has returned for the epoch it ran.
CollectionDone == gcpc = "waitScheduled" /\ epoch >= 1 /\ finishedEpoch = epoch

\* C1 (no live loss): once PerformFullGC has returned, every object that was
\* reachable from the root set when the epoch marked is still in the object
\* factory, was neither freed nor handed to the finalizer pipeline, and has
\* its mark bit cleared again.
C1_NoLiveLoss ==
    CollectionDone =>
        \A o \in liveAtMark :
            /\ o \in objectFactory
            /\ o \notin freed
            /\ o \notin InFinalization
            /\ o \notin marked

\* A collection returned after keeping a live object and freeing a dead one.
C1_Witness == CollectionDone /\ liveAtMark # {} /\ freed # {}

\* C2 (full reclamation): once PerformFullGC has returned, every object that
\* was in the global factory when the sweep began and was not reachable when
\* the epoch marked has left the factory and is either freed (no finalizer)
\* or in the finalizer pipeline (finalizer), never both.
C2_FullReclamation ==
    CollectionDone =>
        \A o \in publishedAtSweep \ liveAtMark :
            /\ o \notin objectFactory
            /\ (o \in freed) # (o \in InFinalization)
            /\ (o \in InFinalization) <=> (o \in hasFinalizer)

\* A collection returned after freeing one object and queueing another.
C2_Witness ==
    /\ CollectionDone
    /\ (publishedAtSweep \ liveAtMark) \cap freed # {}
    /\ (publishedAtSweep \ liveAtMark) \cap InFinalization # {}

\* C3 (weak correctness): once PerformFullGC has returned, every weak slot is
\* null or holds an object the epoch's mark phase marked, which the sweep
\* kept; and the slots that were cleared held unmarked objects.
C3_WeakCorrectness ==
    CollectionDone =>
        /\ \A s \in Slots :
            \/ weak[s] = NULL
            \/ /\ weak[s] \in markedByMark
               /\ weak[s] \in objectFactory
               /\ weak[s] \notin freed \cup InFinalization
        /\ clearedWeak \cap markedByMark = {}

\* A collection returned after the weak processor cleared a slot.
C3_Witness == CollectionDone /\ clearedWeak # {} /\ \E s \in Slots : weak[s] = NULL

\* C4 (concurrent weak barrier): while the weak-reference barriers are
\* enabled, the last read a mutator made through a weak reference under the
\* barriers of this epoch returned null or an object that is marked (and that
\* the epoch's mark found reachable).
C4_ConcurrentWeakBarrier ==
    (weakRefBarriers /\ weakRead.barriers /\ weakRead.epoch = startedEpoch
        /\ weakRead.obj # NULL)
    => (weakRead.obj \in marked /\ weakRead.obj \in liveAtMark)

\* Under the barriers a mutator read null from a slot that the weak processor
\* has not cleared yet and whose target is unmarked.
C4_Witness ==
    /\ weakRefBarriers /\ weakRead.barriers /\ weakRead.epoch = startedEpoch
    /\ weakRead.obj = NULL
    /\ \E s \in Slots : weak[s] # NULL /\ weak[s] \notin marked

\* C5 as stated (OOM path): a mutator that has returned from OnOOM waited for
\* an epoch that has reached Finished.
C5_Original == \A m \in Mutators : oomResumed[m] <= finishedEpoch

\* C5 (OOM path, amended): a mutator that has returned from OnOOM waited for
\* an epoch that has reached Finished, unless the epoch state was shut down;
\* and a mutator blocked in OnOOM is eventually released, the collection it
\* waits for reaching full suspension although the mutator itself is blocked.
C5_OOMPath ==
    /\ [](\A m \in Mutators : oomResumed[m] <= finishedEpoch \/ shutdownFlag)
    /\ \A m \in Mutators : (mstate[m] = "native") ~> (mstate[m] # "native")

\* A mutator has returned from OnOOM after its epoch finished, with no shutdown.
C5_Witness ==
    \E m \in Mutators :
        /\ oomResumed[m] >= 1 /\ oomResumed[m] <= finishedEpoch
        /\ mstate[m] = "running" /\ ~shutdownFlag

\* C6 (epoch progress): absent shutdown, every scheduled epoch eventually is
\* started, finished and finalized, so that WaitFinished and WaitFinalizers
\* on it return, also when its finalizer queue is empty.
C6_EpochProgress ==
    \A e \in 1..MaxCalls :
        (scheduledEpoch >= e) ~>
            (shutdownFlag \/ (startedEpoch >= e /\ WaitFinished(e) /\ WaitFinalizers(e)
                              /\ finishedEpoch >= e /\ finalizedEpoch >= e))

\* An epoch whose finalizer queue was empty has been finalized.
C6_Witness == finalizedEpoch >= 1 /\ hasFinalizer = {} /\ ~shutdownFlag

\* C7 (per-epoch milestone order): an epoch that is finalized, or whose batch
\* has been handed to the finalizer processor, is finished.
C7_FinalizedImpliesFinished ==
    /\ finalizedEpoch <= finishedEpoch
    /\ \A i \in 1..Len(finalizerTasks) : finalizerTasks[i][1] <= finishedEpoch

\* An epoch has been finalized.
C7_Witness == finalizedEpoch >= 1 /\ finalizedEpoch = finishedEpoch

\* C8 (cross-epoch finalizer order): finalized(e) is signalled in increasing
\* order of e, one epoch at a time.
C8_FinalizerOrder ==
    [][finalizedEpoch' # finalizedEpoch => finalizedEpoch' = finalizedEpoch + 1]_vars

\* Two epochs were finalized while a third batch was waiting.
C8_Witness == finalizedEpoch >= 2 /\ finalizerTasks # <<>>

\* C9 as stated (epoch monotonicity): the epochs returned by Schedule() are
\* strictly increasing.
C9_Original ==
    \A i \in 1..(Len(returned) - 1) : returned[i] < returned[i + 1]

\* C9 (epoch monotonicity, amended): a call of Schedule() returns an epoch no
\* smaller than the previous call's; it is greater when the previously
\* returned epoch has started, and it is the same pending epoch when that
\* epoch has not started yet.
C9_ScheduleMonotone ==
    [][(Len(returned') > Len(returned) /\ Len(returned) > 0) =>
        LET last == returned[Len(returned)]
            new == returned'[Len(returned')]
        IN  /\ new >= last
            /\ (startedEpoch >= last) => (new > last)
            /\ (startedEpoch < last) => (new = last)]_vars

\* Two calls returned the same pending epoch, and a later call a greater one.
C9_Witness ==
    /\ Len(returned) >= 3
    /\ returned[1] = returned[2]
    /\ returned[2] < returned[3]

\* Every GC thread has left its loop.
GCThreadsExited == gcpc = "exited" /\ \A a \in auxThreads : auxpc[a] = "exited"

\* C10 (cooperative shutdown): once shutdown is invoked with the GC thread in
\* waitScheduled, waitScheduled returns empty (no collection begins), the main
\* GC thread leaves its loop and every auxiliary thread exits.
C10_ShutdownTerminates ==
    /\ [][(shutdownFlag /\ gcpc = "waitScheduled") =>
            gcpc' \in {"waitScheduled", "exited"}]_vars
    /\ (shutdownFlag /\ gcpc = "waitScheduled") ~> GCThreadsExited

\* After shutdown the main GC thread and an auxiliary thread have exited.
C10_Witness == shutdownFlag /\ GCThreadsExited /\ auxThreads # {}

\* C11 as stated (shutdown during an active epoch): once shutdown has been
\* invoked with an epoch Started and not Finished, the collector reaches the
\* abort state.
C11_Original == shutdownFlag ~> (gcpc = "aborted")

\* C11 (shutdown during an active epoch, amended): shutdown only raises the
\* terminal flag.  The collection in flight is not aborted: PerformFullGC
\* runs to its return (the epoch is Finished, the mutators are resumed, the
\* locks are released, the finalizer batch is handed over and finalized), and
\* the GC thread then leaves its loop.
C11_ShutdownLetsEpochFinish ==
    /\ [](gcpc # "aborted")
    /\ shutdownFlag ~>
            (/\ gcpc = "exited"
             /\ finishedEpoch = startedEpoch
             /\ finalizedEpoch = finishedEpoch
             /\ ~suspensionRequested /\ ~gcMutex
             /\ ~objectFactoryLock /\ ~extraObjectFactoryLock)

\* Shutdown came while an epoch was Started and not Finished; the epoch has
\* finished since, its garbage went through the finalizer thread, and the
\* GC thread has left its loop.
C11_Witness ==
    /\ shutdownFlag /\ gcpc = "exited"
    /\ startedEpoch >= 1 /\ finishedEpoch = startedEpoch
    /\ finalizedObjs # {}

\* C12 (root-set uniqueness): between one clearMarkFlags and the next, at most
\* one tryLockRootSet call on a mutator returns true, whichever workers race
\* for it; and once marking is complete exactly one has, for every mutator:
\* no root set is claimed twice and none is left unclaimed.
C12_RootSetUniqueness ==
    /\ \A m \in Mutators : claimCount[m] <= 1
    /\ markingComplete =>
            \A m \in Mutators : claimCount[m] = 1 /\ rootSetLocked[m] /\ published[m]

\* Marking is complete with a cooperating mutator among the workers and an
\* auxiliary thread that has tried every root set.
C12_Witness ==
    /\ markingComplete
    /\ \E m \in Mutators : cooperative[m]
    /\ \E a \in auxThreads : rootPos[AuxWorker(a)] \notin Mutators
    /\ \A m \in Mutators : claimCount[m] = 1

\* runMainInSTW has returned for the epoch in flight.
MarkReturned == gcpc \in {"enableBarriers", "weaks"}

SuspensionCycle == <<"request", "wait", "resume">>
FollowsProtocol(log) ==
    \A i \in 1..Len(log) : log[i] = SuspensionCycle[((i - 1) % 3) + 1]
PerformFullGCReturned == gcpc \in {"waitScheduled", "exited"}

\* C15 (suspension protocol): in every PerformFullGC the calls are made in
\* the order request, wait, resume (so every resume follows a request and a
\* completed wait with no resume in between, and a second request follows
\* the previous resume); the thread-suspension flag is set exactly between a
\* request and its resume; and when PerformFullGC has returned there are as
\* many resumes as requests and no suspension is pending.
C15_SuspensionProtocol ==
    /\ FollowsProtocol(suspLog)
    /\ suspensionRequested <=> (Len(suspLog) % 3 # 0)
    /\ (Len(suspLog) % 3 = 2) => AllThreadsSuspended
    /\ gcpc # "aborted"
    /\ PerformFullGCReturned =>
          /\ Len(suspLog) % 3 = 0
          /\ ~suspensionRequested
          /\ startedEpoch > 0 =>
                Len(suspLog) = IF variant = "CMS" /\ concurrentWeakSweep THEN 6 ELSE 3

\* A concurrent-weak-sweep collection has returned after two full
\* request, wait, resume rounds, and a mutator runs again.
C15_Witness ==
    /\ PerformFullGCReturned /\ Len(suspLog) = 6
    /\ \E m \in Mutators : mstate[m] = "running"

\* processWeaks is running: the GC thread is in it and has slots left.
ProcessWeaksRunning == gcpc = "weaks" /\ weakPos \in Slots

\* C16 (weak-processing window): while processWeaks runs, either every
\* mutator is suspended (STMS, CMS without concurrentWeakSweep) or the
\* weak-reference barriers are enabled (CMS with concurrentWeakSweep); the
\* barriers are enabled in the first stop-the-world, before the first
\* ResumeThreads; they are disabled only in the second stop-the-world, with
\* every mutator suspended and processWeaks over; and they are disabled
\* whenever no collection is in progress.
C16_WeakProcessingWindow ==
    /\ [](ProcessWeaksRunning =>
            IF variant = "CMS" /\ concurrentWeakSweep
            THEN weakRefBarriers
            ELSE suspensionRequested /\ AllThreadsSuspended /\ ~weakRefBarriers)
    /\ [](PerformFullGCReturned => ~weakRefBarriers)
    /\ [](weakRefBarriers => variant = "CMS" /\ concurrentWeakSweep)
    /\ [][(~weakRefBarriers /\ weakRefBarriers') =>
            /\ suspLog = <<"request", "wait">>
            /\ suspensionRequested /\ AllThreadsSuspended]_vars
    /\ [][(weakRefBarriers /\ ~weakRefBarriers') =>
            /\ suspLog = <<"request", "wait", "resume", "request">>
            /\ suspLog' = <<"request", "wait", "resume", "request", "wait">>
            /\ suspensionRequested /\ suspensionRequested'
            /\ AllThreadsSuspended /\ AllThreadsSuspended'
            /\ weakPos \notin Slots /\ gcpc' = "publish"]_vars

\* processWeaks runs with the barriers enabled while a mutator runs.
C16_Witness ==
    /\ ProcessWeaksRunning /\ weakRefBarriers
    /\ \E m \in Mutators : mstate[m] = "running"

\* The sweep passes of the concurrent collector: from the acquisition of
\* the iteration locks to the end of each pass.
SweepExtraObjectsPending == variant = "CMS" /\ gcpc \in {"resume", "sweepExtra"}
SweepPending == variant = "CMS" /\ gcpc \in {"resume", "sweepExtra", "sweep"}

\* C17 (lock-before-resume): in CMS both iteration locks are taken with
\* every mutator still suspended, before the final ResumeThreads, and each
\* is held until its sweep pass has ended; while a lock is held nothing is
\* published into its factory (the factory only shrinks), so the thread
\* queue of a thread that terminates after the resume stays out of the
\* global factories until the pass is over.
C17_LockBeforeResume ==
    /\ [](SweepExtraObjectsPending => extraObjectFactoryLock)
    /\ [](SweepPending => objectFactoryLock)
    /\ [][(~objectFactoryLock /\ objectFactoryLock') \/
           (~extraObjectFactoryLock /\ extraObjectFactoryLock') =>
            /\ suspensionRequested /\ suspensionRequested'
            /\ AllThreadsSuspended
            /\ suspLog[Len(suspLog)] = "wait"
            /\ objectFactoryLock' /\ extraObjectFactoryLock']_vars
    /\ [][objectFactoryLock => objectFactory' \subseteq objectFactory]_vars
    /\ [][extraObjectFactoryLock => extraObjectFactory' \subseteq extraObjectFactory]_vars
    /\ [][SweepPending =>
            \A m \in Mutators : threadQueue[m] \cap objectFactory' = {}]_vars

\* The object sweep is about to run while a thread that terminated after
\* the resume waits, its queue not empty, for the object factory's lock.
C17_Witness ==
    /\ variant = "CMS" /\ gcpc = "sweep" /\ objectFactoryLock
    /\ \E m \in Mutators : mstate[m] = "exiting" /\ threadQueue[m] # {}

\* The final ResumeThreads of the collection has been called.
FinalResumeDone ==
    variant = "CMS" /\ Len(suspLog) = IF concurrentWeakSweep THEN 6 ELSE 3

\* Objects allocated after the final ResumeThreads: object identities are
\* never reused and every object that existed at the last stop-the-world
\* was published by PerformFullGC, so these are the objects allocated so
\* far that are not among the published ones.
AllocatedAfterResume == (Obj \ Unallocated) \ publishedAtSweep

\* C18 (allocations after sweep starts): in CMS an object allocated after
\* the final ResumeThreads, while SweepExtraObjects and Sweep of the epoch
\* run or later, is unmarked, is never freed and never put on the finalizer
\* queue by this epoch's sweep, keeps its extra-object data, and is still
\* allocated when PerformFullGC returns, left to a later epoch; everything
\* the sweep reclaims was published before the resume.
C18_LateAllocationsSafe ==
    /\ [](FinalResumeDone =>
            /\ AllocatedAfterResume \subseteq Allocated
            /\ AllocatedAfterResume \cap (marked \cup freed \cup InFinalization) = {}
            /\ (freed \cup InFinalization) \subseteq publishedAtSweep)
    /\ [][FinalResumeDone =>
            \A o \in AllocatedAfterResume :
                /\ o \in extraObjectFactory => o \in extraObjectFactory'
                /\ o \in hasFinalizer => o \in hasFinalizer']_vars

\* The sweep has freed an object, and an object allocated after the resume
\* whose thread has terminated since sits, unmarked, in the global factory.
C18_Witness ==
    /\ FinalResumeDone /\ PerformFullGCReturned
    /\ freed # {}
    /\ \E o \in AllocatedAfterResume : o \in objectFactory /\ o \notin marked

\* A sweep pass (SweepExtraObjects or Sweep) is about to run or running.
SweepPassRunning == gcpc \in {"sweepExtra", "sweep"}

\* C20 as stated: whenever a sweep pass runs, the epoch's ResumeThreads has
\* been called and no suspension is in force.
C20_Original ==
    SweepPassRunning => ~suspensionRequested /\ suspLog[Len(suspLog)] = "resume"

\* C20 (sweep and resumption, by collector): both sweep passes run after
\* the mark and after processWeaks has visited every slot. In CMS they run
\* after the final ResumeThreads, with no suspension in force; in STMS they
\* run inside the stop-the-world, every mutator suspended, and
\* ResumeThreads is called only after the sweep.
C20_SweepAndResume ==
    SweepPassRunning =>
        /\ startedEpoch = epoch /\ ~markingActive
        /\ weakPos \notin Slots
        /\ objectFactoryLock
        /\ IF variant = "CMS"
           THEN /\ ~suspensionRequested
                /\ suspLog[Len(suspLog)] = "resume"
                /\ FinalResumeDone
           ELSE /\ suspensionRequested
                /\ AllThreadsSuspended
                /\ suspLog = <<"request", "wait">>

\* The concurrent collector is about to sweep objects while a mutator runs
\* and some object is unmarked.
C20_Witness ==
    /\ variant = "CMS" /\ gcpc = "sweep"
    /\ \E m \in Mutators : mstate[m] = "running"
    /\ \E o \in objectFactory : o \notin marked

\* The orchestrator is at the call finalizerProcessor_.ScheduleTasks.
AtScheduleTasks == gcpc = "scheduleTasks"

\* C21 (no GC-wide lock at finalizer hand-off): when the orchestrator calls
\* ScheduleTasks it holds neither iteration lock nor gcMutex.
C21_NoLockAtHandOff ==
    AtScheduleTasks =>
        ~objectFactoryLock /\ ~extraObjectFactoryLock /\ ~gcMutex

\* PerformFullGC holds mainGCLock: from its first statement to its return.
InPerformFullGC ==
    variant = "CMS" /\ gcpc \notin {"waitScheduled", "begin", "exited", "aborted"}

\* reconfigure holds mainGCLock: reset and the rebuild of the pool.
InReconfigure == reconfpc \in {"locked", "reset"}

SweepExtraObjectsStep == gcpc = "sweepExtra" /\ gcpc' = "sweep"

\* C23 (extra-object sweep rule): SweepExtraObjects removes exactly the
\* entries whose base object is on the managed heap and unmarked; an entry
\* whose base object is marked or is permanent stays, and an entry of a
\* permanent object is never removed by any step, in STMS and in CMS.
C23_ExtraObjectSweepRule ==
    /\ [][SweepExtraObjectsStep =>
            /\ extraObjectFactory' \subseteq extraObjectFactory
            /\ extraObjectFactory \ extraObjectFactory' =
                    {o \in extraObjectFactory : o \in Obj /\ o \notin marked}
            /\ \A o \in extraObjectFactory :
                    (o \in marked \/ o \in Permanent) => o \in extraObjectFactory']_vars
    /\ [][\A o \in extraObjectFactory \cap Permanent : o \in extraObjectFactory']_vars
    /\ [](marked \cap Permanent = {})

\* SweepExtraObjects has just run over entries of all three kinds: the
\* entry of a marked heap object and that of a permanent object are still
\* there, that of an unmarked heap object is gone.
C23_Witness ==
    /\ gcpc = "sweep"
    /\ \E o \in extraObjectFactory : o \in Obj /\ o \in marked
    /\ \E o \in extraObjectFactory : o \in Permanent
    /\ \E o \in objectFactory : o \in hasFinalizer /\ o \notin marked
                                  /\ o \notin extraObjectFactory

\* The milestones of one PerformFullGC in the order the code reaches them.
MilestoneOrder ==
    IF variant = "CMS" /\ concurrentWeakSweep
    THEN <<"wait", "onGCStart", "start", "resume", "wait", "resume", "finish">>
    ELSE <<"wait", "onGCStart", "start", "resume", "finish">>
IsPrefix(p, q) == Len(p) <= Len(q) /\ \A i \in 1..Len(p) : p[i] = q[i]

\* The order of the milestones, and state.start signalled inside the pause.
MilestonesBracketPause ==
    /\ [](IsPrefix(milestones, MilestoneOrder))
    /\ [][startedEpoch' # startedEpoch =>
            /\ startedEpoch' = epoch
            /\ suspensionRequested /\ AllThreadsSuspended
            /\ suspensionRequested' /\ AllThreadsSuspended']_vars
    /\ [][finishedEpoch' # finishedEpoch =>
            /\ finishedEpoch' = epoch /\ startedEpoch = epoch
            /\ resumedEpoch = epoch /\ ~suspensionRequested]_vars
    /\ [](finishedEpoch <= resumedEpoch /\ resumedEpoch <= startedEpoch)

\* C24 as stated: the milestones are in order, and every thread released
\* by WaitFinished(e) finds the final ResumeThreads of epoch e done.
C24_Original ==
    /\ MilestonesBracketPause
    /\ [](\A m \in Mutators : oomResumed[m] <= resumedEpoch)

\* C24 (epoch milestones bracket the pause): in both collectors the order in
\* every epoch is wait, onGCStart, start, final resume, finish; start(e) is
\* signalled with every mutator suspended; finish(e) is signalled after the
\* final ResumeThreads of e; and a thread released by WaitFinished(e)
\* finds that resume done unless it was released by shutdown.
C24_MilestonesBracketPause ==
    /\ MilestonesBracketPause
    /\ [](\A m \in Mutators :
            oomResumed[m] <= resumedEpoch \/ (shutdownFlag /\ oomResumed[m] > finishedEpoch))
    /\ [](~shutdownFlag => \A m \in Mutators : oomResumed[m] <= resumedEpoch)

\* A mutator has come back from its wait for an epoch that finished, after
\* that epoch's final resume, with no shutdown.
C24_Witness ==
    /\ ~shutdownFlag
    /\ \E m \in Mutators :
        oomResumed[m] >= 1 /\ oomResumed[m] <= finishedEpoch /\ mstate[m] = "running"
    /\ resumedEpoch >= 1 /\ milestones[Len(milestones)] = "finish"

====
